---------------------------- MODULE Spec2Model ----------------------------
(***************************************************************************)
(* Model of the StringSight firmware payload codec:                        *)
(*   sensorPortSchema::encodeData / encodeDataWithSchema                   *)
(*     (lib/PortSchema/src/SensorPortSchema.cpp)                           *)
(*   portSchema and the static port table (lib/PortSchema/src/PortSchema.h)*)
(* and of                                                                  *)
(*   the AnalogSensor constructors, BatteryLevel::mvToSoC and the two      *)
(*     averaging routines of CurrentSensor                                 *)
(*     (lib/SensorHelper/src/AnalogSensor.cpp)                             *)
(*   log, printLog and the BLE callbacks (lib/Logging/src/Logging.cpp).    *)
(*                                                                         *)
(* Specifications: Spec (encoding and decoding of a frame), SpecPortTable  *)
(* (getPort, operator+, operator==), SpecSensor (AnalogSensor),            *)
(* SpecLogging (log calls interleaved with BLE callbacks), SpecBattery     *)
(* (mvToSoC) and SpecCurrent (zeroCurrentOffsetCalibration and             *)
(* readCurrentAmp, one loop pass at a time).                               *)
(*                                                                         *)
(* Numbers are modelled at the width the firmware uses:                    *)
(*   - `int` is a 32-bit two's-complement word, handled as four bytes      *)
(*     wherever the code uses bitwise operators;                           *)
(*   - `float` is an IEEE-754 binary32 value  (-1)^neg * m * 2^e  with a   *)
(*     24-bit significand m, and a product, sum, difference or quotient is *)
(*     rounded to nearest-even as the FPU does;                            *)
(*   - uint8_t values wrap modulo 256.                                     *)
(***************************************************************************)
EXTENDS Integers, Sequences, FiniteSets

(***************************************************************************)
(* Machine arithmetic                                                      *)
(***************************************************************************)

\* Number of significant bits of a natural number below 2^31.
BitLen(n) == Cardinality({k \in 0..30 : 2 ^ k <= n})

Abs(x) == IF x < 0 THEN -x ELSE x

\* Significand width of a binary32 float (FLT_MANT_DIG).
FloatMantBits == 24

\* A float value (-1)^neg * m * 2^e.
Float(neg, m, e) == [neg |-> neg, m |-> m, e |-> e]

\* Round the exact magnitude P * 2^E to a 24-bit significand, ties to even.
RoundToFloat(neg, P, E) ==
    LET k == BitLen(P) - FloatMantBits
    IN  IF k <= 0
        THEN Float(neg, P, E)
        ELSE LET q    == P \div (2 ^ k)
                 r    == P % (2 ^ k)
                 half == 2 ^ (k - 1)
                 up   == (r > half) \/ (r = half /\ q % 2 = 1)
             IN  Float(neg, IF up THEN q + 1 ELSE q, E + k)

\* (float)sensor_data for the integer overloads of encodeData.
IntToFloat(i) == RoundToFloat(i < 0, Abs(i), 0)

\* a * b in binary32: the exact product, rounded once.
FloatMul(a, b) ==
    RoundToFloat((a.neg /\ ~b.neg) \/ (~a.neg /\ b.neg), a.m * b.m, a.e + b.e)

\* Largest magnitude an `int` conversion is defined for: the value must be
\* below 2^31, i.e. have at most 31 significant bits.
IntValueBits == 31

\* TRUE when (int)f is defined (the truncated value is representable in int).
FitsInt(f) == (f.m = 0) \/ (BitLen(f.m) + f.e <= IntValueBits)

\* (int)f : conversion of a float to int discards the fraction (toward zero).
FloatToIntFloor(f) ==
    IF f.e >= 0
    THEN (IF f.neg THEN -1 ELSE 1) * f.m * (2 ^ f.e)
    ELSE IF -f.e > FloatMantBits
    THEN (IF f.neg /\ f.m > 0 THEN -1 ELSE 0)
    ELSE (IF f.neg THEN -f.m ELSE f.m) \div (2 ^ (-f.e))

FloatToInt(f) ==
    IF f.e >= 0
    THEN (IF f.neg THEN -1 ELSE 1) * f.m * (2 ^ f.e)
    ELSE IF -f.e > FloatMantBits
    THEN 0
    ELSE (IF f.neg THEN -1 ELSE 1) * (f.m \div (2 ^ (-f.e)))


(***************************************************************************)
(* 32-bit words as four bytes (index 0 = least significant), the form in   *)
(* which the bitwise operators of the encoder act on `int`.                *)
(***************************************************************************)

ByteIndex == 0..3

\* Two's-complement bytes of an int value.
IntBytes(v) == [k \in ByteIndex |-> (v \div (256 ^ k)) % 256]

\* Bit i of a byte.
Bit(a, i) == (a \div (2 ^ i)) % 2

\* a & b on bytes.
BitAnd8(a, b) ==
      Bit(a, 0) * Bit(b, 0)       + 2 * Bit(a, 1) * Bit(b, 1)
    + 4 * Bit(a, 2) * Bit(b, 2)   + 8 * Bit(a, 3) * Bit(b, 3)
    + 16 * Bit(a, 4) * Bit(b, 4)  + 32 * Bit(a, 5) * Bit(b, 5)
    + 64 * Bit(a, 6) * Bit(b, 6)  + 128 * Bit(a, 7) * Bit(b, 7)

\* x & y on words.
AndWord(x, y) == [k \in ByteIndex |-> BitAnd8(x[k], y[k])]

\* 0xFF << bitshift (bitshift a multiple of 8 below 32).
ShiftLeftFF(bitshift) == [k \in ByteIndex |-> IF 8 * k = bitshift THEN 255 ELSE 0]

\* x >> bitshift on a signed word: arithmetic shift, the sign bit is copied in.
ShiftRightArith(x, bitshift) ==
    LET s    == bitshift \div 8
        fill == IF x[3] >= 128 THEN 255 ELSE 0
    IN  [k \in ByteIndex |-> IF k + s <= 3 THEN x[k + s] ELSE fill]

\* (uint8_t)x : the low byte.
ToUint8(x) == x[0]

(***************************************************************************)
(* sensorPortSchema and encodeDataWithSchema                               *)
(***************************************************************************)

\* A field codec: sensorPortSchema {n_bytes, n_values, scale_factor, is_signed}.
SensorSchema(nb, nv, sf, sg) ==
    [n_bytes |-> nb, n_values |-> nv, scale_factor |-> sf, is_signed |-> sg]

\* data_to_encode for an invalid reading: 0x7F7F7F7F (signed field) or
\* 0xFFFFFFFF, which stored in an int is -1 (unsigned field).
InvalidDataSwapped(is_signed) == IF is_signed THEN -1 ELSE 2139062143

InvalidDataMax(is_signed) == IF is_signed THEN 2147483647 ELSE -1

InvalidDataZero(is_signed) == 0

InvalidData(is_signed) == IF is_signed THEN 2139062143 ELSE -1

\* data_to_encode for a valid reading: (int)((float)sensor_data * scale_factor).
ScaledDataFloor(sensor_data, scale_factor) ==
    FloatToIntFloor(FloatMul(sensor_data, scale_factor))

ScaledDataUnscaled(sensor_data, scale_factor) ==
    FloatToInt(sensor_data)

ScaledData(sensor_data, scale_factor) ==
    FloatToInt(FloatMul(sensor_data, scale_factor))

\* The condition under which the misuse warning is logged.
WarnCondition(schema, data_to_encode) ==
    (~schema.is_signed) /\ (data_to_encode < 0)

\* Bytes given to each value of the field.
DataSizeTotal(schema) == schema.n_bytes

DataSize(schema) == schema.n_bytes \div schema.n_values

\* The byte stored by one iteration of the packing loop.
EncodedByteLowOnly(data_to_encode, j) ==
    ToUint8(AndWord(IntBytes(data_to_encode), IntBytes(255)))

EncodedByteBitShift(data_to_encode, j) ==
    (data_to_encode \div (2 ^ j)) % 256

EncodedByteClamped(data_to_encode, j) ==
    LET d == IF data_to_encode < 0 THEN 0 ELSE data_to_encode
    IN  ToUint8(ShiftRightArith(IntBytes(d), 8 * j))

EncodedByte(data_to_encode, j) ==
    LET bitshift == (j * 8) % 256
    IN  IF j > 0
        THEN ToUint8(ShiftRightArith(
                 AndWord(IntBytes(data_to_encode), ShiftLeftFF(bitshift)), bitshift))
        ELSE ToUint8(AndWord(IntBytes(data_to_encode), IntBytes(255)))

\* Index of the byte written by iteration i.
WriteIndexNoOffset(buf_pos, i) == i

WriteIndex(buf_pos, i) == buf_pos + i

\* The frame length stored after the loop (buffsize is a uint8_t).
NewBuffsizeShort(buf_pos, i) == (buf_pos + i - 1) % 256

NewBuffsize(buf_pos, i) == (buf_pos + i) % 256

\* for (; i < data_size; i++, j--) { buffer[buf_pos + i] = ... }
\* The loop state st holds the buffer and the uint8_t counters i and j.
RECURSIVE EncodeLoop(_, _, _, _)
EncodeLoop(st, buf_pos, data_size, data_to_encode) ==
    IF st.i < data_size
    THEN EncodeLoop(
             [buffer |-> [st.buffer EXCEPT ![WriteIndex(buf_pos, st.i)] =
                                               EncodedByte(data_to_encode, st.j)],
              i      |-> (st.i + 1) % 256,
              j      |-> (st.j - 1) % 256],
             buf_pos, data_size, data_to_encode)
    ELSE st

\* encodeDataWithSchema(sensor_data, valid, lorawan_payload, sensor_schema):
\* the integer that was packed, whether the warning was logged, and the
\* payload after the call.
EncodeDataWithSchema(sensor_data, valid, payload, schema) ==
    LET buf_pos        == payload.buffsize
        data_to_encode == IF valid
                          THEN ScaledData(sensor_data, schema.scale_factor)
                          ELSE InvalidData(schema.is_signed)
        data_size      == DataSize(schema)
        loop           == EncodeLoop([buffer |-> payload.buffer,
                                      i      |-> 0,
                                      j      |-> (data_size - 1) % 256],
                                     buf_pos, data_size, data_to_encode)
    IN  [data_to_encode |-> data_to_encode,
         warned         |-> WarnCondition(schema, data_to_encode),
         buffer         |-> loop.buffer,
         buffsize       |-> NewBuffsize(buf_pos, loop.i)]

(***************************************************************************)
(* Inputs                                                                  *)
(***************************************************************************)

\* Per-value widths the packer handles: an int holds four bytes.
MaxDataSize == 4

\* Largest n_values of the codecs explored.
MaxValues == 2

\* Capacity of the caller's payload buffer.
PayloadBufferSize == 32

\* Operations explored in one behaviour.
MaxCalls == 1

\* scale_factor values 1 and 100 as floats.
ScaleOne     == Float(FALSE, 1, 0)
ScaleHundred == Float(FALSE, 25, 2)

\* Codecs given float readings: scale 100, every per-value width 1..4, signed
\* and unsigned, and the signed codecs of several values.
FloatCodecs ==
    {SensorSchema(w, 1, ScaleHundred, sg) : w \in 1..MaxDataSize, sg \in BOOLEAN}
    \cup {SensorSchema(w * nv, nv, ScaleHundred, TRUE) :
              w \in 1..MaxDataSize, nv \in 2..MaxValues}

\* Codecs given integer readings: scale 1, every width 1..4, signed and unsigned.
IntCodecs ==
    {SensorSchema(w, 1, ScaleOne, sg) : w \in 1..MaxDataSize, sg \in BOOLEAN}

\* Float readings (binary32 values of the decimal in the comment).
F_Zero      == Float(FALSE, 0, 0)            \* 0.0
F_3_85      == Float(FALSE, 8074035, -21)    \* 3.85f
F_22_5      == Float(FALSE, 45, -1)          \* 22.5
F_48_3      == Float(FALSE, 12661555, -18)   \* 48.3f
F_1_27      == Float(FALSE, 2663383, -21)    \* 1.27f
F_2_55      == Float(FALSE, 10695475, -22)   \* 2.55f
F_326_39    == Float(FALSE, 20889, -6)       \* 326.390625
F_655_35    == Float(FALSE, 41943, -6)       \* 655.359375
F_700       == Float(FALSE, 175, 2)          \* 700.0
F_200000    == Float(FALSE, 12800001, -6)    \* 200000.015625
F_400000    == Float(FALSE, 6400001, -4)     \* 400000.0625
F_m1_5      == Float(TRUE, 3, -1)            \* -1.5
F_m12_34    == Float(TRUE, 3234857, -18)     \* -12.34f
F_m0_0039   == Float(TRUE, 1, -8)            \* -0.00390625
F_m0_0156   == Float(TRUE, 1, -6)            \* -0.015625

\* Readings passed through the float overload, as (sensor_data, valid) pairs.
FloatReadings ==
    ({F_Zero, F_3_85, F_1_27, F_655_35, F_700, F_200000, F_400000,
      F_m1_5, F_m12_34, F_m0_0039, F_m0_0156} \X {TRUE})
    \cup ({F_3_85, F_m12_34} \X {FALSE})

\* Readings passed through the integer overloads (uint8_t, uint16_t, uint32_t,
\* int), as (sensor_data, valid) pairs.
IntReadings == ({200, -3, 16777217} \X {TRUE}) \cup ({200} \X {FALSE})

\* "Hello!" : the initial content of the example's payload buffer.
HelloBytes == <<72, 101, 108, 108, 111, 33>>

BufferIndex == 0..(PayloadBufferSize - 1)

(***************************************************************************)
(* portSchema, the static port table and the port-level encode             *)
(***************************************************************************)

\* SensorFieldKind in the canonical order (the order of the flags in portSchema).
KindsCurrentFirst ==
    <<"CurrentSensor", "BatteryVoltage", "Temperature", "RelativeHumidity",
      "AirPressure", "GasResistance", "Location">>

KindsLocationFirst ==
    <<"Location", "BatteryVoltage", "Temperature", "RelativeHumidity",
      "AirPressure", "GasResistance", "CurrentSensor">>

Kinds ==
    <<"BatteryVoltage", "Temperature", "RelativeHumidity", "AirPressure",
      "GasResistance", "Location", "CurrentSensor">>

PortSchemaOf(n, bv, t, rh, ap, gr, loc, cs) ==
    [port_number |-> n, sendBatteryVoltage |-> bv, sendTemperature |-> t,
     sendRelativeHumidity |-> rh, sendAirPressure |-> ap, sendGasResistance |-> gr,
     sendLocation |-> loc, sendCurrentSensor |-> cs]

PORTERRORWithBattery ==
    PortSchemaOf(255, TRUE, FALSE, FALSE, FALSE, FALSE, FALSE, FALSE)

PORTERROR == PortSchemaOf(255, FALSE, FALSE, FALSE, FALSE, FALSE, FALSE, FALSE)
PORT1  == PortSchemaOf(1,  TRUE,  FALSE, FALSE, FALSE, FALSE, FALSE, FALSE)
PORT2  == PortSchemaOf(2,  FALSE, TRUE,  FALSE, FALSE, FALSE, FALSE, FALSE)
PORT3  == PortSchemaOf(3,  TRUE,  TRUE,  FALSE, FALSE, FALSE, FALSE, FALSE)
PORT4  == PortSchemaOf(4,  FALSE, TRUE,  TRUE,  FALSE, FALSE, FALSE, FALSE)
PORT5  == PortSchemaOf(5,  TRUE,  TRUE,  TRUE,  FALSE, FALSE, FALSE, FALSE)
PORT6  == PortSchemaOf(6,  FALSE, TRUE,  TRUE,  TRUE,  FALSE, FALSE, FALSE)
PORT7  == PortSchemaOf(7,  TRUE,  TRUE,  TRUE,  TRUE,  FALSE, FALSE, FALSE)
PORT8  == PortSchemaOf(8,  FALSE, TRUE,  TRUE,  TRUE,  TRUE,  FALSE, FALSE)
PORT9  == PortSchemaOf(9,  TRUE,  TRUE,  TRUE,  TRUE,  TRUE,  FALSE, FALSE)
PORT10 == PortSchemaOf(10, FALSE, FALSE, FALSE, FALSE, FALSE, FALSE, TRUE)
PORT11 == PortSchemaOf(11, TRUE,  FALSE, FALSE, FALSE, FALSE, FALSE, TRUE)
PORT50AsPort10 == PortSchemaOf(50, FALSE, FALSE, FALSE, FALSE, FALSE, FALSE, TRUE)

PORT50 == PortSchemaOf(50, FALSE, FALSE, FALSE, FALSE, FALSE, TRUE,  FALSE)
PORT51 == PortSchemaOf(51, TRUE,  FALSE, FALSE, FALSE, FALSE, TRUE,  FALSE)
PORT52 == PortSchemaOf(52, FALSE, TRUE,  FALSE, FALSE, FALSE, TRUE,  FALSE)
PORT53 == PortSchemaOf(53, TRUE,  TRUE,  FALSE, FALSE, FALSE, TRUE,  FALSE)
PORT54 == PortSchemaOf(54, FALSE, TRUE,  TRUE,  FALSE, FALSE, TRUE,  FALSE)
PORT55 == PortSchemaOf(55, TRUE,  TRUE,  TRUE,  FALSE, FALSE, TRUE,  FALSE)
PORT56 == PortSchemaOf(56, FALSE, TRUE,  TRUE,  TRUE,  FALSE, TRUE,  FALSE)
PORT57 == PortSchemaOf(57, TRUE,  TRUE,  TRUE,  TRUE,  FALSE, TRUE,  FALSE)
PORT58 == PortSchemaOf(58, FALSE, TRUE,  TRUE,  TRUE,  TRUE,  TRUE,  FALSE)
PORT59 == PortSchemaOf(59, TRUE,  TRUE,  TRUE,  TRUE,  TRUE,  TRUE,  FALSE)

Ports ==
    {PORTERROR, PORT1, PORT2, PORT3, PORT4, PORT5, PORT6, PORT7, PORT8, PORT9,
     PORT10, PORT11, PORT50, PORT51, PORT52, PORT53, PORT54, PORT55, PORT56,
     PORT57, PORT58, PORT59}

\* The inclusion flag of a field kind.
Includes(port, kind) ==
    CASE kind = "BatteryVoltage"   -> port.sendBatteryVoltage
      [] kind = "Temperature"      -> port.sendTemperature
      [] kind = "RelativeHumidity" -> port.sendRelativeHumidity
      [] kind = "AirPressure"      -> port.sendAirPressure
      [] kind = "GasResistance"    -> port.sendGasResistance
      [] kind = "Location"         -> port.sendLocation
      [] kind = "CurrentSensor"    -> port.sendCurrentSensor

\* The static codec of each field kind.  Battery voltage, temperature and
\* humidity are the 2-byte scale-100 codecs of the specification's scenarios;
\* the location is a two-value field (latitude, longitude).
FieldSchema(kind) ==
    CASE kind = "BatteryVoltage"   -> SensorSchema(2, 1, ScaleHundred, FALSE)
      [] kind = "Temperature"      -> SensorSchema(2, 1, ScaleHundred, TRUE)
      [] kind = "RelativeHumidity" -> SensorSchema(2, 1, ScaleHundred, FALSE)
      [] kind = "AirPressure"      -> SensorSchema(4, 1, ScaleHundred, FALSE)
      [] kind = "GasResistance"    -> SensorSchema(4, 1, ScaleOne, FALSE)
      [] kind = "Location"         -> SensorSchema(8, 2, Float(FALSE, 125, 3), TRUE)
      [] kind = "CurrentSensor"    -> SensorSchema(2, 1, ScaleHundred, TRUE)

\* encoded_length(schema): the sum of n_bytes over the included fields.
RECURSIVE EncodedLengthFrom(_, _)
EncodedLengthFrom(port, k) ==
    IF k > Len(Kinds) THEN 0
    ELSE (IF Includes(port, Kinds[k]) THEN FieldSchema(Kinds[k]).n_bytes ELSE 0)
         + EncodedLengthFrom(port, k + 1)

EncodedLength(port) == EncodedLengthFrom(port, 1)

\* One field: encodeData once for each of its values, in order.  The state st
\* holds the payload, the warnings logged so far and the index v of the next value.
RECURSIVE EncodeValues(_, _, _, _)
EncodeValues(st, schema, values, valid) ==
    IF st.v > Len(values) THEN st
    ELSE LET r == EncodeDataWithSchema(values[st.v], valid,
                                       [buffer |-> st.buffer, buffsize |-> st.buffsize],
                                       schema)
         IN  EncodeValues([buffer   |-> r.buffer,
                           buffsize |-> r.buffsize,
                           warnings |-> st.warnings + (IF r.warned THEN 1 ELSE 0),
                           k        |-> st.k,
                           v        |-> st.v + 1],
                          schema, values, valid)

\* The fields of the canonical order from index st.k on, each included one
\* appended in turn.
RECURSIVE EncodeFields(_, _, _)
EncodeFields(st, port, sensor_data) ==
    IF st.k > Len(Kinds) THEN st
    ELSE LET kind == Kinds[st.k]
             done == IF Includes(port, kind)
                     THEN EncodeValues([st EXCEPT !.v = 1], FieldSchema(kind),
                                       sensor_data[kind].values, sensor_data[kind].is_valid)
                     ELSE st
         IN  EncodeFields([done EXCEPT !.k = st.k + 1], port, sensor_data)

\* portSchema::encodeSensorDataToPayload(sensor_data, payload_buffer, start_pos):
\* the buffer after the call and the returned length (payload.buffsize).
EncodeSensorDataToPayload(port, sensor_data, payload_buffer, start_pos) ==
    EncodeFields([buffer |-> payload_buffer, buffsize |-> start_pos, warnings |-> 0,
                  k |-> 1, v |-> 1],
                 port, sensor_data)

\* Snapshots (sensorData): the values of each field kind and its validity flag.
KindSet == {Kinds[k] : k \in 1..Len(Kinds)}

SnapshotValuesA ==
    [kind \in KindSet |->
        CASE kind = "BatteryVoltage"   -> <<F_3_85>>
          [] kind = "Temperature"      -> <<F_22_5>>
          [] kind = "RelativeHumidity" -> <<F_48_3>>
          [] kind = "AirPressure"      -> <<Float(FALSE, 101325, 0)>>
          [] kind = "GasResistance"    -> <<F_700>>
          [] kind = "Location"         -> <<Float(TRUE, 271, -3), Float(FALSE, 605, -2)>>
          [] kind = "CurrentSensor"    -> <<F_1_27>>]

SnapshotValuesB ==
    [kind \in KindSet |->
        CASE kind = "BatteryVoltage"   -> <<F_Zero>>
          [] kind = "Temperature"      -> <<F_m12_34>>
          [] kind = "RelativeHumidity" -> <<F_2_55>>
          [] kind = "AirPressure"      -> <<F_326_39>>
          [] kind = "GasResistance"    -> <<F_655_35>>
          [] kind = "Location"         -> <<F_22_5, F_m1_5>>
          [] kind = "CurrentSensor"    -> <<F_m1_5>>]

\* Readings beyond what the fields carry: a battery reading scaling to 0xFFFF,
\* a temperature beyond 16 bits, a negative humidity, a current scaling to 0x7F7F.
SnapshotValuesC ==
    [kind \in KindSet |->
        CASE kind = "BatteryVoltage"   -> <<F_655_35>>
          [] kind = "Temperature"      -> <<F_700>>
          [] kind = "RelativeHumidity" -> <<F_m1_5>>
          [] kind = "AirPressure"      -> <<F_400000>>
          [] kind = "GasResistance"    -> <<F_200000>>
          [] kind = "Location"         -> <<F_1_27, F_3_85>>
          [] kind = "CurrentSensor"    -> <<F_326_39>>]

ValiditySets == {KindSet, {"BatteryVoltage", "Temperature", "Location"}}

Snapshots ==
    {[kind \in KindSet |-> [values |-> vals[kind], is_valid |-> (kind \in ok)]] :
        vals \in {SnapshotValuesA, SnapshotValuesB, SnapshotValuesC}, ok \in ValiditySets}

\* start_pos values: the default 0 and the length of the example's header.
StartPositions == {0, Len(HelloBytes)}

\* TRUE when every included value of the snapshot scales to a value an int holds.
SnapshotFitsInt(port, sensor_data) ==
    \A k \in 1..Len(Kinds) :
        Includes(port, Kinds[k]) =>
            \A v \in 1..Len(sensor_data[Kinds[k]].values) :
                FitsInt(FloatMul(sensor_data[Kinds[k]].values[v],
                                 FieldSchema(Kinds[k]).scale_factor))

(***************************************************************************)
(* State                                                                   *)
(***************************************************************************)

VARIABLES
    buffer,     \* lorawan_payload.buffer : the frame bytes
    buffsize,   \* lorawan_payload.buffsize : the frame length
    ncalls,     \* operations made so far
    last        \* the last operation: its inputs, the payload before it, its results

\* Logging.cpp
VARIABLES
    g_BleUartConnected,  \* flag: a BLE UART client is connected
    serial,              \* the lines written to Serial, in order
    ble,                 \* the lines written to g_BleUart, in order
    log_pc,              \* position of the log call in progress ("idle": none)
    log_calls,           \* the log calls made: level, filter outcome, flag read
    last_callback,       \* the most recent BLE callback ("none": none yet)
    app_log_level        \* APP_LOG_LEVEL of the build

logvars ==
    <<g_BleUartConnected, serial, ble, log_pc, log_calls, last_callback, app_log_level>>

\* AnalogSensor.h, class CurrentSensor
VARIABLES
    current_sensor,      \* the float members of the CurrentSensor object
    sensor_call          \* the call of its routines in progress ("idle": none), the
                         \* loop index i, and the readings and result of the call

sensorvars == <<current_sensor, sensor_call>>

vars == <<buffer, buffsize, ncalls, last, logvars, sensorvars>>

\* LOG_LEVEL: NONE is the lowest level, DEBUG the most verbose one.
LOG_NONE  == 0
LOG_ERROR == 1
LOG_WARN  == 2
LOG_INFO  == 3
LOG_DEBUG == 4

LogLevels == {LOG_NONE, LOG_ERROR, LOG_WARN, LOG_INFO, LOG_DEBUG}

\* Logging before any call: bool g_BleUartConnected = false; nothing written.
LoggingInit(levels) ==
    /\ g_BleUartConnected = FALSE
    /\ serial = <<>>
    /\ ble = <<>>
    /\ log_pc = "idle"
    /\ log_calls = <<>>
    /\ last_callback = "none"
    /\ app_log_level \in levels

\* real_MV_per_LSB as CurrentSensor::ADCInit leaves it for CurrentSensor(void):
\* the compensation factor 1/0.6 times 3000 mV over 2^12, which is 625/512.
CurrentSensorMVPerLSB == Float(FALSE, 625, -9)

\* The members of a CurrentSensor after its construction and ADCInit().
CurrentSensorObject(real_MV_per_LSB) ==
    [zeroCurrentOffset      |-> F_Zero,
     currentSample          |-> F_Zero,
     current_sensor_mV      |-> F_Zero,
     current_sensor_mV_sum  |-> F_Zero,
     current_sample_mv      |-> F_Zero,
     currentSampleRead      |-> F_Zero,
     currentSampleSum       |-> F_Zero,
     currentSensorADCvalSum |-> F_Zero,
     ADCaverage             |-> F_Zero,
     rawADC                 |-> F_Zero,
     real_MV_per_LSB        |-> real_MV_per_LSB]

\* No call of zeroCurrentOffsetCalibration or readCurrentAmp yet.
NoSensorCall ==
    [pc |-> "idle", i |-> 0, calls |-> 0, routine |-> "none",
     samples |-> <<>>, offset |-> F_Zero, ret |-> F_Zero]

SensorInit(factors) ==
    /\ current_sensor \in {CurrentSensorObject(r) : r \in factors}
    /\ sensor_call = NoSensorCall

NoCall ==
    [op |-> "none", schema |-> SensorSchema(1, 1, ScaleOne, FALSE),
     reading |-> F_Zero, sensor_data |-> F_Zero, valid |-> FALSE,
     old_buffer |-> [k \in BufferIndex |-> 0], old_buffsize |-> 0,
     data_to_encode |-> 0, warned |-> FALSE]

\* uint8_t payload_buffer[PAYLOAD_BUFFER_SIZE] = "Hello!";
\* lmh_app_data_t lorawan_payload = {payload_buffer, strlen("Hello!"), ...};
\* or an empty frame (start_pos = 0).
Init ==
    /\ buffer = [k \in BufferIndex |-> IF k < Len(HelloBytes) THEN HelloBytes[k + 1] ELSE 0]
    /\ buffsize \in {0, Len(HelloBytes)}
    /\ ncalls = 0
    /\ last = NoCall
    /\ LoggingInit({LOG_DEBUG})
    /\ SensorInit({CurrentSensorMVPerLSB})

\* One call of encodeDataWithSchema on the payload.  The caller provides room
\* for the field (n_bytes) and a reading whose scaled value an int can hold.
\* `reading` is the value passed, `sensor_data` its conversion to float.
DoEncodeData(reading, sensor_data, valid, schema) ==
    LET r == EncodeDataWithSchema(sensor_data, valid,
                                  [buffer |-> buffer, buffsize |-> buffsize], schema)
    IN  /\ ncalls < MaxCalls
        /\ buffsize + schema.n_bytes <= PayloadBufferSize
        /\ FitsInt(FloatMul(sensor_data, schema.scale_factor))
        /\ buffer' = r.buffer
        /\ buffsize' = r.buffsize
        /\ ncalls' = ncalls + 1
        /\ last' = [op |-> "encodeData", schema |-> schema, reading |-> reading,
                    sensor_data |-> sensor_data, valid |-> valid,
                    old_buffer |-> buffer, old_buffsize |-> buffsize,
                    data_to_encode |-> r.data_to_encode, warned |-> r.warned]
        /\ UNCHANGED <<logvars, sensorvars>>

\* sensorPortSchema::encodeData(float sensor_data, bool valid, lmh_app_data_t *)
EncodeDataFloat ==
    \E schema \in FloatCodecs, reading \in FloatReadings :
        DoEncodeData(reading[1], reading[1], reading[2], schema)

\* sensorPortSchema::encodeData(uint8_t | uint16_t | uint32_t | int sensor_data, ...)
EncodeDataInt ==
    \E schema \in IntCodecs, reading \in IntReadings :
        DoEncodeData(Float(reading[1] < 0, Abs(reading[1]), 0),
                     IntToFloat(reading[1]), reading[2], schema)

\* portSchema::encodeSensorDataToPayload on the payload buffer of a new frame:
\* the call writes the whole frame, and the caller keeps the returned length
\* as the frame length.
EncodePort ==
    \E port \in Ports, sensor_data \in Snapshots, start_pos \in StartPositions :
        LET r == EncodeSensorDataToPayload(port, sensor_data, buffer, start_pos)
        IN  /\ ncalls = 0
            /\ start_pos + EncodedLength(port) <= PayloadBufferSize
            /\ SnapshotFitsInt(port, sensor_data)
            /\ buffer' = r.buffer
            /\ buffsize' = r.buffsize
            /\ ncalls' = MaxCalls
            /\ last' = [op |-> "encodeSensorDataToPayload", port |-> port,
                        sensor_data |-> sensor_data, start_pos |-> start_pos,
                        old_buffer |-> buffer, old_buffsize |-> buffsize,
                        ret |-> r.buffsize, warnings |-> r.warnings]
            /\ UNCHANGED <<logvars, sensorvars>>

(***************************************************************************)
(* Decoding of one value (the receiver's side of the codec)                *)
(***************************************************************************)

\* The sentinel pattern of a field: 0x7F (signed) or 0xFF (unsigned) in every byte.
SentinelByte(is_signed) == IF is_signed THEN 127 ELSE 255

IsSentinel(bytes, is_signed) ==
    \A k \in 1..Len(bytes) : bytes[k] = SentinelByte(is_signed)

\* The big-endian integer of a byte run, as a natural number (runs of at most
\* three bytes, or four bytes with the top bit clear).
RECURSIVE BigEndian(_)
BigEndian(bytes) ==
    IF Len(bytes) = 0 THEN 0
    ELSE bytes[Len(bytes)] + 256 * BigEndian(SubSeq(bytes, 1, Len(bytes) - 1))

\* decode(bytes, schema): the reassembled integer n (sign-extended for a signed
\* field), the reading n / scale_factor it stands for, and the validity flag.
\* An unsigned four-byte integer of 2^31 or more is given as n - 2^32 with
\* `high` set.
DecodeData(bytes, schema) ==
    LET w      == Len(bytes)
        topset == bytes[1] >= 128
        low    == BigEndian([k \in 1..w |-> IF k = 1 /\ topset THEN bytes[1] - 128
                                             ELSE bytes[k]])
        n      == IF topset THEN low - (2 ^ (8 * w - 2)) - (2 ^ (8 * w - 2)) ELSE low
    IN  [n         |-> IF schema.is_signed \/ ~topset THEN n
                       ELSE IF w < MaxDataSize THEN low + 2 ^ (8 * w - 1)
                       ELSE n,
         high      |-> (~schema.is_signed) /\ topset /\ w = MaxDataSize,
         scale     |-> schema.scale_factor,
         was_valid |-> ~IsSentinel(bytes, schema.is_signed)]

\* | n / scale - reading | <= 1 / scale, i.e. | n - reading * scale | <= 1 with
\* the exact (unrounded) product reading * scale = N * 2^E.
WithinScaleTolerance(d, reading) ==
    LET N == (IF reading.neg THEN -1 ELSE 1) * reading.m * d.scale.m
        E == reading.e + d.scale.e
    IN  IF d.high THEN FALSE
        ELSE IF E >= 0 THEN Abs(d.n - N * (2 ^ E)) <= 1
        ELSE IF -E >= IntValueBits THEN d.n \in {-1, 0, 1}
        ELSE LET Q == N \div (2 ^ (-E))
                 R == N % (2 ^ (-E))
             IN  (d.n - Q \in {0, 1}) \/ (d.n - Q = -1 /\ R = 0)

(***************************************************************************)
(* The port table lookup and the port-level decode (the receiver's side)   *)
(***************************************************************************)

\* The ports of the static table.
RegisteredPorts == Ports \ {PORTERROR}

\* getPort(port_number): the port of the table with that number, PORTERROR
\* when the table has none.
GetPort(port_number) ==
    IF \E p \in RegisteredPorts : p.port_number = port_number
    THEN CHOOSE p \in RegisteredPorts : p.port_number = port_number
    ELSE PORTERROR

\* The snapshot default of a field: value 0, valid = false.
DefaultField(kind) ==
    [values   |-> [v \in 1..FieldSchema(kind).n_values |->
                      [n |-> 0, high |-> FALSE,
                       scale |-> FieldSchema(kind).scale_factor, was_valid |-> FALSE]],
     is_valid |-> FALSE]

DefaultSensorData == [kind \in KindSet |-> DefaultField(kind)]

\* The n bytes of a buffer from index `from` on.
BufferSlice(buf, from, n) == [idx \in 1..n |-> buf[from + idx - 1]]

\* One field read at the cursor: decodeData once for each of its values.
DecodeField(buf, cursor, schema) ==
    LET w      == schema.n_bytes \div schema.n_values
        values == [v \in 1..schema.n_values |->
                      DecodeData(BufferSlice(buf, cursor + (v - 1) * w, w), schema)]
    IN  [values   |-> values,
         is_valid |-> \A v \in 1..schema.n_values : values[v].was_valid]

\* The fields of the canonical order from index st.k on: each included one is
\* read at the cursor, which then advances by its n_bytes.  st.at keeps the
\* cursor at which each field was read (-1: not read).
RECURSIVE DecodeFields(_, _, _)
DecodeFields(st, port, buf) ==
    IF st.k > Len(Kinds) THEN st
    ELSE LET kind == Kinds[st.k]
         IN  IF Includes(port, kind)
             THEN DecodeFields(
                      [sensor_data |-> [st.sensor_data EXCEPT
                                           ![kind] = DecodeField(buf, st.cursor, FieldSchema(kind))],
                       at          |-> [st.at EXCEPT ![kind] = st.cursor],
                       cursor      |-> st.cursor + FieldSchema(kind).n_bytes,
                       k           |-> st.k + 1],
                      port, buf)
             ELSE DecodeFields([st EXCEPT !.k = st.k + 1], port, buf)

\* portSchema::decodePayloadToSensorData(buffer, len, start_pos): the decoded
\* snapshot, with the final cursor and the cursor of each field read.
DecodePayloadToSensorData(port, buf, len, start_pos) ==
    DecodeFields([sensor_data |-> DefaultSensorData,
                  at          |-> [kind \in KindSet |-> -1],
                  cursor      |-> start_pos,
                  k           |-> 1],
                 port, buf)

\* The receiver of a frame: the transport gives the port number of the port
\* that encoded the frame; the receiver looks the port up and decodes the frame
\* (of length len >= start_pos + encoded_length) with it.
DecodePort ==
    /\ last.op = "encodeSensorDataToPayload"
    /\ LET port == GetPort(last.port.port_number)
           r    == DecodePayloadToSensorData(port, buffer, buffsize, last.start_pos)
       IN  /\ buffsize - last.start_pos >= EncodedLength(port)
           /\ last' = [op |-> "decodePayloadToSensorData", port |-> port,
                       sent |-> last.sensor_data, start_pos |-> last.start_pos,
                       len |-> buffsize, sensor_data |-> r.sensor_data,
                       at |-> r.at, cursor |-> r.cursor]
    /\ UNCHANGED <<buffer, buffsize, ncalls, logvars, sensorvars>>

Next ==
    \/ EncodeDataFloat
    \/ EncodeDataInt
    \/ EncodePort
    \/ DecodePort

Spec == Init /\ [][Next]_vars

(***************************************************************************)
(* The last call seen from outside                                         *)
(***************************************************************************)

Called == last.op = "encodeData"

\* Per-value width of the codec of the last call.
Width == last.schema.n_bytes \div last.schema.n_values

\* The bytes of the frame starting at the old frame length.
WrittenBytes(n) == [k \in 1..n |-> buffer[last.old_buffsize + k - 1]]

\* Byte k (0 = first written) of the w low-order bytes of the two's-complement
\* integer d, most significant first.
BigEndianByte(d, w, k) == (d \div (256 ^ (w - 1 - k))) % 256

BatterySchema == SensorSchema(2, 1, ScaleHundred, FALSE)

\* The (float) product value * scale_factor of the last call.
Product == FloatMul(last.sensor_data, last.schema.scale_factor)

\* n is the product with its fraction discarded: |n| <= |p| < |n| + 1, and n
\* is not of the opposite sign.
IsTruncationOf(n, p) ==
    /\ (n > 0 => ~p.neg) /\ (n < 0 => p.neg)
    /\ IF p.e >= 0 THEN Abs(n) = p.m * (2 ^ p.e)
       ELSE IF -p.e > FloatMantBits THEN n = 0
       ELSE /\ Abs(n) * (2 ^ (-p.e)) <= p.m
            /\ p.m < (Abs(n) + 1) * (2 ^ (-p.e))

\* The scaled integer is one the field can carry in Width bytes.
FitsField ==
    IF last.schema.is_signed
    THEN \/ Width = MaxDataSize
         \/ /\ -(2 ^ (8 * Width - 1)) <= last.data_to_encode
            /\ last.data_to_encode <= 2 ^ (8 * Width - 1) - 1
    ELSE /\ 0 <= last.data_to_encode
         /\ (Width < MaxDataSize => last.data_to_encode < 2 ^ (8 * Width))

(***************************************************************************)
(* Properties of a single encode call                                      *)
(***************************************************************************)

\* C1 (as stated): one encode call appends exactly n_bytes bytes: the frame
\* length grows by n_bytes, for every codec, also when n_values > 1.
C1_AppendsNBytes ==
    Called => buffsize = last.old_buffsize + last.schema.n_bytes

\* C1 (amended): one encode call appends exactly n_bytes / n_values bytes (one
\* value of the field): the frame length grows by that amount, which is
\* n_bytes when n_values = 1.
C1_AppendsOneValue ==
    Called =>
        /\ buffsize = last.old_buffsize + (last.schema.n_bytes \div last.schema.n_values)
        /\ (last.schema.n_values = 1 =>
                buffsize = last.old_buffsize + last.schema.n_bytes)

C1_Witness ==
    /\ Called
    /\ last.schema.n_values = 2
    /\ last.schema.n_bytes = 8
    /\ buffsize = last.old_buffsize + 4

\* C2: with valid = FALSE the bytes written are the sentinel whatever the
\* reading: 0x7F in each of the n_bytes / n_values bytes of a signed field,
\* 0xFF in each of them for an unsigned field, for every width 1..4.
C2_InvalidWritesSentinel ==
    (Called /\ ~last.valid) =>
        \A k \in 0..(Width - 1) :
            buffer[last.old_buffsize + k] = (IF last.schema.is_signed THEN 127 ELSE 255)

C2_Witness ==
    /\ Called /\ ~last.valid
    /\ last.schema.is_signed
    /\ Width = 4
    /\ last.sensor_data = F_m12_34
    /\ WrittenBytes(4) = <<127, 127, 127, 127>>

\* C3: the accumulator is packed big-endian: byte k of the Width bytes written
\* holds bits 8*(Width-1-k) .. 8*(Width-1-k)+7 of the two's-complement integer.
C3_BigEndian ==
    Called =>
        \A k \in 0..(Width - 1) :
            buffer[last.old_buffsize + k] = BigEndianByte(last.data_to_encode, Width, k)

C3_Witness ==
    /\ Called /\ last.valid
    /\ Width = 4
    /\ last.data_to_encode = 40000008
    /\ WrittenBytes(4) = <<2, 98, 90, 8>>

\* C4: with valid = TRUE the integer packed is value * scale_factor with the
\* fraction discarded (toward zero, for negative values too), and the 2-byte
\* unsigned scale-100 field encodes 3.85 as 0x01 0x81.
C4_TruncatesTowardZero ==
    (Called /\ last.valid) =>
        /\ IsTruncationOf(last.data_to_encode, Product)
        /\ (last.schema = BatterySchema /\ last.sensor_data = F_3_85) =>
               WrittenBytes(2) = <<1, 129>>

C4_Witness ==
    /\ Called /\ last.valid
    /\ last.schema = BatterySchema
    /\ last.sensor_data = F_3_85
    /\ last.data_to_encode = 385
    /\ WrittenBytes(2) = <<1, 129>>

\* A negative reading whose scaled value has a fraction: -0.00390625 * 100.
C4_WitnessNegative ==
    /\ Called /\ last.valid
    /\ last.sensor_data = F_m0_0039
    /\ last.schema.scale_factor = ScaleHundred
    /\ last.data_to_encode = 0

\* Largest scaled magnitude below which the float product is exact to the
\* unit: floats of up to 25 significant bits are spaced at most 2 apart.
UnitExactBits == FloatMantBits + 1

\* The decoding of the value the last call wrote.
Decoded == DecodeData(WrittenBytes(Width), last.schema)

\* C5 (as stated): for every codec and every reading encoded with valid = TRUE,
\* decoding the bytes written gives a value within 1/scale_factor of the reading.
C5_RoundTripEveryReading ==
    (Called /\ last.valid) => WithinScaleTolerance(Decoded, last.reading)

\* C5 (amended): for every codec and every reading encoded with valid = TRUE
\* whose scaled integer fits the per-value width and signedness of the field
\* and is below 2^25 in magnitude, decoding the bytes written gives back that
\* integer, and the value within 1/scale_factor of the reading.
C5_RoundTripFittingReading ==
    (Called /\ last.valid /\ FitsField
        /\ BitLen(Abs(last.data_to_encode)) <= UnitExactBits) =>
        /\ ~Decoded.high
        /\ Decoded.n = last.data_to_encode
        /\ WithinScaleTolerance(Decoded, last.reading)

C5_Witness ==
    /\ Called /\ last.valid /\ FitsField
    /\ last.schema = SensorSchema(2, 1, ScaleHundred, TRUE)
    /\ last.reading = F_m12_34
    /\ Decoded.n = -1234
    /\ WithinScaleTolerance(Decoded, last.reading)

\* C6: decoding the bytes written with valid = FALSE reports was_valid = FALSE,
\* for every codec and reading; the 2-byte unsigned battery field writes FF FF.
C6_SentinelRoundTrip ==
    (Called /\ ~last.valid) =>
        /\ ~Decoded.was_valid
        /\ (last.schema = BatterySchema => WrittenBytes(2) = <<255, 255>>)

C6_Witness ==
    /\ Called /\ ~last.valid
    /\ last.schema = BatterySchema
    /\ last.reading = F_3_85
    /\ WrittenBytes(2) = <<255, 255>>
    /\ ~Decoded.was_valid

\* C7 (as stated): the bytes written for a reading encoded with valid = TRUE
\* never equal the sentinel pattern of the field, so decode reports
\* was_valid = FALSE only for a reading encoded with valid = FALSE.
C7_SentinelNeverCollides ==
    (Called /\ last.valid) =>
        /\ ~IsSentinel(WrittenBytes(Width), last.schema.is_signed)
        /\ Decoded.was_valid

\* The low Width bytes of the scaled integer are the sentinel value of the field.
ScaledIsSentinel ==
    \A k \in 0..(Width - 1) :
        BigEndianByte(last.data_to_encode, Width, k) = SentinelByte(last.schema.is_signed)

\* C7 (amended): the bytes written for a reading encoded with valid = TRUE
\* equal the sentinel pattern of the field exactly when the low
\* n_bytes / n_values bytes of its scaled integer are the sentinel value
\* (0x7F.. signed, 0xFF.. unsigned); for every other reading they differ and
\* decode reports was_valid = TRUE.
C7_CollidesOnlyOnSentinelValue ==
    (Called /\ last.valid) =>
        /\ IsSentinel(WrittenBytes(Width), last.schema.is_signed) <=> ScaledIsSentinel
        /\ Decoded.was_valid <=> ~ScaledIsSentinel

C7_Witness ==
    /\ Called /\ last.valid
    /\ last.schema = SensorSchema(2, 1, ScaleHundred, TRUE)
    /\ last.reading = F_1_27
    /\ last.data_to_encode = 127
    /\ WrittenBytes(2) = <<0, 127>>
    /\ Decoded.was_valid

\* The bytes, read as an unsigned big-endian integer, are d + 2^(8 * Len(bytes))
\* wrapped into the width: the value of a negative d is neither clamped to 0
\* nor dropped.
WrapsTo(bytes, d) ==
    IF Len(bytes) < MaxDataSize
    THEN BigEndian(bytes) = d % (256 ^ Len(bytes))
    ELSE /\ bytes[1] >= 128
         /\ BigEndian([bytes EXCEPT ![1] = bytes[1] - 128])
                = d + 2 ^ (IntValueBits - 1) + 2 ^ (IntValueBits - 1)

\* C8: a valid reading whose scaled integer is negative, through an unsigned
\* field: the warning is logged, the low n_bytes / n_values bytes of the
\* two's-complement value are written (wrapped, not clamped) and the frame
\* length advances as for any other value.
C8_NegativeThroughUnsigned ==
    (Called /\ last.valid /\ ~last.schema.is_signed /\ last.data_to_encode < 0) =>
        /\ last.warned
        /\ WrapsTo(WrittenBytes(Width), last.data_to_encode)
        /\ buffsize = last.old_buffsize + Width

C8_Witness ==
    /\ Called /\ last.valid /\ ~last.schema.is_signed
    /\ last.reading = F_m1_5
    /\ last.data_to_encode = -150
    /\ Width = 2
    /\ last.warned
    /\ WrittenBytes(2) = <<255, 106>>

\* C9: an encode call at frame length L writes only the indices
\* L .. L + (bytes written) - 1: every byte below L and every byte from the
\* new frame length on is unchanged.
C9_FrameEffect ==
    Called =>
        \A idx \in BufferIndex :
            (idx < last.old_buffsize \/ idx >= buffsize) =>
                buffer[idx] = last.old_buffer[idx]

C9_Witness ==
    /\ Called
    /\ last.old_buffsize = Len(HelloBytes)
    /\ buffsize = last.old_buffsize + 3
    /\ [k \in 1..Len(HelloBytes) |-> buffer[k - 1]] = HelloBytes
    /\ \A k \in 0..2 : buffer[last.old_buffsize + k] # last.old_buffer[last.old_buffsize + k]

(***************************************************************************)
(* Properties of the port-level encode                                     *)
(***************************************************************************)

PortCalled == last.op = "encodeSensorDataToPayload"

\* C10: encodeSensorDataToPayload advances the write cursor by exactly
\* encoded_length(schema), the sum of n_bytes over the included fields, for
\* every port, snapshot and start_pos.
C10_LengthDeterminism ==
    PortCalled =>
        /\ last.ret = last.start_pos + EncodedLength(last.port)
        /\ buffsize = last.ret

C10_Witness ==
    /\ PortCalled
    /\ last.port = PORT59
    /\ last.start_pos = Len(HelloBytes)
    /\ ~last.sensor_data["AirPressure"].is_valid
    /\ last.sensor_data["Location"].is_valid
    /\ last.ret = 28

\* The canonical order of SensorFieldKind.
CanonicalOrder ==
    <<"BatteryVoltage", "Temperature", "RelativeHumidity", "AirPressure",
      "GasResistance", "Location", "CurrentSensor">>

\* Byte offset, from the start of the frame, of the field at index k of the
\* canonical order: the total width of the included fields before it.
RECURSIVE FieldOffset(_, _)
FieldOffset(port, k) ==
    IF k = 1 THEN 0
    ELSE FieldOffset(port, k - 1)
         + (IF Includes(port, CanonicalOrder[k - 1])
            THEN FieldSchema(CanonicalOrder[k - 1]).n_bytes ELSE 0)

\* The encoding of one field on its own: its values encoded into an empty frame.
FieldBytes(kind, field) ==
    LET r == EncodeValues([buffer |-> [idx \in BufferIndex |-> 0], buffsize |-> 0,
                           warnings |-> 0, k |-> 1, v |-> 1],
                          FieldSchema(kind), field.values, field.is_valid)
    IN  [idx \in 1..r.buffsize |-> r.buffer[idx - 1]]

\* n bytes of the frame from index `from` on.
FrameSlice(from, n) == [idx \in 1..n |-> buffer[from + idx - 1]]

\* C11: a port's frame is the concatenation of the included fields' encodings
\* in the canonical order: each included field lies at the offset given by the
\* schema alone (the widths of the included fields before it), whatever the
\* snapshot, and holds that field's own encoding.
C11_CanonicalFieldOrder ==
    PortCalled =>
        \A k \in 1..Len(CanonicalOrder) :
            Includes(last.port, CanonicalOrder[k]) =>
                FrameSlice(last.start_pos + FieldOffset(last.port, k),
                           FieldSchema(CanonicalOrder[k]).n_bytes)
                    = FieldBytes(CanonicalOrder[k], last.sensor_data[CanonicalOrder[k]])

\* Battery and current through PORT11 after the "Hello!" header: the current
\* (-1.5 -> -150) follows the two battery bytes.
C11_Witness ==
    /\ PortCalled
    /\ last.port = PORT11
    /\ last.start_pos = Len(HelloBytes)
    /\ last.sensor_data["CurrentSensor"].values = <<F_m1_5>>
    /\ last.sensor_data["CurrentSensor"].is_valid
    /\ FieldOffset(last.port, 7) = 2
    /\ FrameSlice(last.start_pos, 4) = <<0, 0, 255, 106>>

(***************************************************************************)
(* Properties of the port-level decode                                     *)
(***************************************************************************)

PortDecoded == last.op = "decodePayloadToSensorData"

\* C12: decodePayloadToSensorData walks the canonical order: each included
\* field is read at the cursor left by the included fields before it, the
\* cursor advances by exactly that field's n_bytes (so it ends at start_pos +
\* encoded_length), and every field the schema does not include is left at the
\* snapshot default (value 0, valid = false).
C12_DecodeMirrorsEncode ==
    PortDecoded =>
        /\ \A k \in 1..Len(CanonicalOrder) :
              LET kind == CanonicalOrder[k]
              IN  IF Includes(last.port, kind)
                  THEN /\ last.at[kind] = last.start_pos + FieldOffset(last.port, k)
                       /\ last.at[kind] + FieldSchema(kind).n_bytes <= last.cursor
                       /\ \A j \in (k + 1)..Len(CanonicalOrder) :
                              Includes(last.port, CanonicalOrder[j]) =>
                                  last.at[CanonicalOrder[j]]
                                      >= last.at[kind] + FieldSchema(kind).n_bytes
                  ELSE /\ last.at[kind] = -1
                       /\ ~last.sensor_data[kind].is_valid
                       /\ \A v \in DOMAIN last.sensor_data[kind].values :
                              /\ last.sensor_data[kind].values[v].n = 0
                              /\ ~last.sensor_data[kind].values[v].high
        /\ last.cursor = last.start_pos + EncodedLength(last.port)

\* Battery and location through PORT51 after the "Hello!" header: the battery
\* is read at 6, the location at 8, the cursor ends at 16 and the temperature
\* stays at its default.
C12_Witness ==
    /\ PortDecoded
    /\ last.port = PORT51
    /\ last.start_pos = Len(HelloBytes)
    /\ last.at["BatteryVoltage"] = 6
    /\ last.at["Location"] = 8
    /\ last.cursor = 16
    /\ last.sensor_data["BatteryVoltage"].is_valid
    /\ last.sensor_data["BatteryVoltage"].values[1].n = 385
    /\ last.sensor_data["Temperature"] = DefaultField("Temperature")

\* The scaled integer d is one the codec carries in its per-value width.
ValueFitsField(d, schema) ==
    LET w == schema.n_bytes \div schema.n_values
    IN  IF schema.is_signed
        THEN \/ w = MaxDataSize
             \/ (-(2 ^ (8 * w - 1)) <= d /\ d <= 2 ^ (8 * w - 1) - 1)
        ELSE /\ 0 <= d
             /\ (w < MaxDataSize => d < 2 ^ (8 * w))

\* The low bytes of the scaled integer d are the sentinel value of the codec.
ValueIsSentinel(d, schema) ==
    LET w == schema.n_bytes \div schema.n_values
    IN  \A k \in 0..(w - 1) : BigEndianByte(d, w, k) = SentinelByte(schema.is_signed)

\* Every value of the field scales to an integer that fits the codec, is below
\* 2^25 in magnitude and is not the sentinel value.
FieldRecoverable(kind, field) ==
    \A v \in DOMAIN field.values :
        LET d == ScaledData(field.values[v], FieldSchema(kind).scale_factor)
        IN  /\ ValueFitsField(d, FieldSchema(kind))
            /\ BitLen(Abs(d)) <= UnitExactBits
            /\ ~ValueIsSentinel(d, FieldSchema(kind))

\* The field decoded from its own encoding alone.
DecodedAlone(kind, field) ==
    LET bytes == FieldBytes(kind, field)
    IN  DecodeField([idx \in 0..(Len(bytes) - 1) |-> bytes[idx + 1]], 0, FieldSchema(kind))

\* C13 (as stated): decoding the frame with the port that encoded it recovers,
\* for each included field, the validity flag exactly and the value within
\* 1/scale_factor.
C13_RoundTripEveryField ==
    PortDecoded =>
        \A kind \in KindSet :
            Includes(last.port, kind) =>
                /\ last.sensor_data[kind].is_valid = last.sent[kind].is_valid
                /\ last.sent[kind].is_valid =>
                       \A v \in DOMAIN last.sent[kind].values :
                           WithinScaleTolerance(last.sensor_data[kind].values[v],
                                                last.sent[kind].values[v])

\* C13 (amended): decoding the frame with the port that encoded it gives, for
\* each included field, what decoding that field's own encoding gives (the
\* other fields have no influence); an invalid field comes back invalid; a
\* valid field whose scaled integers fit its codec, are below 2^25 and are not
\* the sentinel value comes back valid, with those integers and within
\* 1/scale_factor.  Temperature 22.5 and humidity 48.3 through PORT4 are the
\* four bytes 08 CA 12 DE.
C13_RoundTripRecoverableFields ==
    PortDecoded =>
        /\ \A kind \in KindSet :
              Includes(last.port, kind) =>
                  /\ last.sensor_data[kind] = DecodedAlone(kind, last.sent[kind])
                  /\ ~last.sent[kind].is_valid => ~last.sensor_data[kind].is_valid
                  /\ (last.sent[kind].is_valid /\ FieldRecoverable(kind, last.sent[kind])) =>
                         /\ last.sensor_data[kind].is_valid
                         /\ \A v \in DOMAIN last.sent[kind].values :
                                /\ last.sensor_data[kind].values[v].n
                                       = ScaledData(last.sent[kind].values[v],
                                                    FieldSchema(kind).scale_factor)
                                /\ WithinScaleTolerance(last.sensor_data[kind].values[v],
                                                        last.sent[kind].values[v])
        /\ (/\ last.port = PORT4
            /\ last.sent["Temperature"] = [values |-> <<F_22_5>>, is_valid |-> TRUE]
            /\ last.sent["RelativeHumidity"] = [values |-> <<F_48_3>>, is_valid |-> TRUE]) =>
               FrameSlice(last.start_pos, 4) = <<8, 202, 18, 222>>

C13_Witness ==
    /\ PortDecoded
    /\ last.port = PORT4
    /\ last.sent["Temperature"] = [values |-> <<F_22_5>>, is_valid |-> TRUE]
    /\ last.sent["RelativeHumidity"] = [values |-> <<F_48_3>>, is_valid |-> TRUE]
    /\ FrameSlice(last.start_pos, 4) = <<8, 202, 18, 222>>
    /\ last.cursor = last.start_pos + 4
    /\ last.sensor_data["Temperature"].is_valid
    /\ last.sensor_data["Temperature"].values[1].n = 2250
    /\ last.sensor_data["RelativeHumidity"].is_valid
    /\ last.sensor_data["RelativeHumidity"].values[1].n = 4830

(***************************************************************************)
(* The port table and the operations on port schemas                       *)
(***************************************************************************)

\* port_number is a uint8_t.
MaxPortNumber == 255

PortNumbers == 0..MaxPortNumber

\* A call getPort(port_number) and the schema it returned.
GetPortCall ==
    /\ ncalls < MaxCalls
    /\ \E port_number \in PortNumbers :
          last' = [op |-> "getPort", port_number |-> port_number,
                   ret |-> GetPort(port_number)]
    /\ ncalls' = ncalls + 1
    /\ UNCHANGED <<buffer, buffsize, logvars, sensorvars>>

\* The port numbers of the static table.
RegisteredNumbers == {p.port_number : p \in RegisteredPorts}

\* The schema includes no field.
NoFieldIncluded(port) == \A kind \in KindSet : ~Includes(port, kind)

GotPort == last.op = "getPort"

\* portSchema::operator+ : the port number is 0 and the flags are ||'ed.
CombineAnd(a, b) ==
    PortSchemaOf(0,
                 a.sendBatteryVoltage /\ b.sendBatteryVoltage,
                 a.sendTemperature /\ b.sendTemperature,
                 a.sendRelativeHumidity /\ b.sendRelativeHumidity,
                 a.sendAirPressure /\ b.sendAirPressure,
                 a.sendGasResistance /\ b.sendGasResistance,
                 a.sendLocation /\ b.sendLocation,
                 a.sendCurrentSensor /\ b.sendCurrentSensor)

Combine(a, b) ==
    PortSchemaOf(0,
                 a.sendBatteryVoltage \/ b.sendBatteryVoltage,
                 a.sendTemperature \/ b.sendTemperature,
                 a.sendRelativeHumidity \/ b.sendRelativeHumidity,
                 a.sendAirPressure \/ b.sendAirPressure,
                 a.sendGasResistance \/ b.sendGasResistance,
                 a.sendLocation \/ b.sendLocation,
                 a.sendCurrentSensor \/ b.sendCurrentSensor)

\* portSchema::operator== : the port numbers and every flag are compared.
EqualsWithoutCurrentSensor(a, b) ==
    /\ a.port_number = b.port_number
    /\ a.sendBatteryVoltage = b.sendBatteryVoltage
    /\ a.sendTemperature = b.sendTemperature
    /\ a.sendRelativeHumidity = b.sendRelativeHumidity
    /\ a.sendAirPressure = b.sendAirPressure
    /\ a.sendGasResistance = b.sendGasResistance
    /\ a.sendLocation = b.sendLocation

Equals(a, b) ==
    /\ a.port_number = b.port_number
    /\ a.sendBatteryVoltage = b.sendBatteryVoltage
    /\ a.sendTemperature = b.sendTemperature
    /\ a.sendRelativeHumidity = b.sendRelativeHumidity
    /\ a.sendAirPressure = b.sendAirPressure
    /\ a.sendGasResistance = b.sendGasResistance
    /\ a.sendLocation = b.sendLocation
    /\ a.sendCurrentSensor = b.sendCurrentSensor

\* The schema with the flag of one field kind inverted.
FlipFlag(port, kind) ==
    CASE kind = "BatteryVoltage" ->
             [port EXCEPT !.sendBatteryVoltage = ~port.sendBatteryVoltage]
      [] kind = "Temperature" ->
             [port EXCEPT !.sendTemperature = ~port.sendTemperature]
      [] kind = "RelativeHumidity" ->
             [port EXCEPT !.sendRelativeHumidity = ~port.sendRelativeHumidity]
      [] kind = "AirPressure" ->
             [port EXCEPT !.sendAirPressure = ~port.sendAirPressure]
      [] kind = "GasResistance" ->
             [port EXCEPT !.sendGasResistance = ~port.sendGasResistance]
      [] kind = "Location" ->
             [port EXCEPT !.sendLocation = ~port.sendLocation]
      [] kind = "CurrentSensor" ->
             [port EXCEPT !.sendCurrentSensor = ~port.sendCurrentSensor]

\* Schemas next to a given one: another port number, or one flag inverted.
Variants(port) ==
    {[port EXCEPT !.port_number = (port.port_number + 1) % (MaxPortNumber + 1)]}
    \cup {FlipFlag(port, kind) : kind \in KindSet}

\* A call a + b.  Both operands are const; the call gives a new schema.
CombineCall ==
    /\ ncalls < MaxCalls
    /\ \E a \in Ports, b \in Ports :
          last' = [op |-> "operator+", a |-> a, b |-> b, ret |-> Combine(a, b),
                   a_after |-> a, b_after |-> b]
    /\ ncalls' = ncalls + 1
    /\ UNCHANGED <<buffer, buffsize, logvars, sensorvars>>

\* A call a == b.
EqualsCall ==
    /\ ncalls < MaxCalls
    /\ \E a \in Ports :
          \E b \in Ports \cup Variants(a) :
              last' = [op |-> "operator==", a |-> a, b |-> b, ret |-> Equals(a, b)]
    /\ ncalls' = ncalls + 1
    /\ UNCHANGED <<buffer, buffsize, logvars, sensorvars>>

NextPortTable ==
    \/ GetPortCall
    \/ CombineCall
    \/ EqualsCall

SpecPortTable == Init /\ [][NextPortTable]_vars

Combined == last.op = "operator+"

Compared == last.op = "operator=="

\* C14: getPort(255) and getPort(n) for every n that is not a port number of
\* the table return PORTERROR, which has port_number 255, no field included
\* and encoded length 0; the lookup gives a schema for each of the 256 port
\* numbers.
C14_UnknownPortSafety ==
    /\ \A n \in PortNumbers : GetPort(n) \in Ports
    /\ (/\ GotPort
        /\ (last.port_number = MaxPortNumber \/ last.port_number \notin RegisteredNumbers)) =>
           /\ last.ret = PORTERROR
           /\ last.ret.port_number = 255
           /\ NoFieldIncluded(last.ret)
           /\ EncodedLength(last.ret) = 0

C14_Witness ==
    /\ GotPort
    /\ last.port_number = 12
    /\ last.port_number \notin RegisteredNumbers
    /\ last.ret = PORTERROR
    /\ EncodedLength(last.ret) = 0

C14_WitnessErrorNumber ==
    /\ GotPort
    /\ last.port_number = 255
    /\ last.ret = PORTERROR

\* C15: a + b has port_number 0 and includes each of the seven field kinds
\* exactly when a includes it or b includes it; neither operand is modified.
C15_CombineCorrectness ==
    Combined =>
        /\ last.ret.port_number = 0
        /\ \A kind \in KindSet :
              Includes(last.ret, kind) <=> (Includes(last.a, kind) \/ Includes(last.b, kind))
        /\ last.a_after = last.a
        /\ last.b_after = last.b

\* PORT4 (temperature, humidity) + PORT51 (battery, location).
C15_Witness ==
    /\ Combined
    /\ last.a = PORT4
    /\ last.b = PORT51
    /\ last.ret = PortSchemaOf(0, TRUE, TRUE, TRUE, FALSE, FALSE, TRUE, FALSE)
    /\ last.a_after = PORT4
    /\ last.b_after = PORT51

\* The two schemas differ in exactly one of the seven flags and in nothing else.
DifferInOneFlagOnly(a, b) ==
    /\ a.port_number = b.port_number
    /\ Cardinality({kind \in KindSet : Includes(a, kind) # Includes(b, kind)}) = 1

\* C16: a == b is true exactly when the port numbers are equal and all seven
\* inclusion flags are equal; schemas that differ in the port number only, or
\* in a single flag only, compare unequal.
C16_EqualsIsStructural ==
    Compared =>
        /\ last.ret <=>
              /\ last.a.port_number = last.b.port_number
              /\ \A kind \in KindSet : Includes(last.a, kind) = Includes(last.b, kind)
        /\ (/\ last.a.port_number # last.b.port_number
            /\ \A kind \in KindSet : Includes(last.a, kind) = Includes(last.b, kind)) =>
               ~last.ret
        /\ DifferInOneFlagOnly(last.a, last.b) => ~last.ret

\* PORT1 against PORT1 with the current sensor added: unequal.
C16_Witness ==
    /\ Compared
    /\ last.a = PORT1
    /\ last.b = FlipFlag(PORT1, "CurrentSensor")
    /\ DifferInOneFlagOnly(last.a, last.b)
    /\ ~last.ret

C16_WitnessPortNumberOnly ==
    /\ Compared
    /\ last.a = PORT4
    /\ last.b = [PORT4 EXCEPT !.port_number = 5]
    /\ ~last.ret

C16_WitnessEqual ==
    /\ Compared
    /\ last.a = PORT59
    /\ last.b = PORT59
    /\ last.ret

(***************************************************************************)
(* AnalogSensor: the constructors                                          *)
(***************************************************************************)

DEFAULT_ANALOG_REFERENCE == "AR_DEFAULT"

DEFAULT_ANALOG_RESOLUTION == 10

DEFAULT_OVERSAMPLING == 0

\* Values of the constructor arguments and of the members.
Pins == {0, 5, 31}

AnalogReferences == {"AR_DEFAULT", "AR_INTERNAL_3_0", "AR_VDD4"}

AnalogResolutions == {DEFAULT_ANALOG_RESOLUTION, 12, 14}

Oversamplings == {DEFAULT_OVERSAMPLING, 128}

\* The members written by the four-argument constructor.
AnalogSensorObject(pin, analog_ref, analog_resolution, oversampling) ==
    [pin |-> pin, analog_ref |-> analog_ref,
     analog_resolution |-> analog_resolution, oversampling |-> oversampling]

\* The members of an object no constructor body has written: pin, analog_ref,
\* analog_resolution and oversampling have no initializer, so each holds any
\* value of its type.
UninitializedObjects ==
    {AnalogSensorObject(p, r, n, o) :
        p \in Pins, r \in AnalogReferences, n \in AnalogResolutions, o \in Oversamplings}

\* AnalogSensor(pin, analog_ref, analog_resolution, oversampling): assigns the
\* four members of this.
AnalogSensor4 ==
    /\ ncalls < MaxCalls
    /\ \E pin \in Pins, analog_ref \in AnalogReferences,
          analog_resolution \in AnalogResolutions, oversampling \in Oversamplings :
          last' = [op |-> "AnalogSensor", nargs |-> 4,
                   expected |-> AnalogSensorObject(pin, analog_ref, analog_resolution,
                                                   oversampling),
                   object |-> AnalogSensorObject(pin, analog_ref, analog_resolution,
                                                 oversampling)]
    /\ ncalls' = ncalls + 1
    /\ UNCHANGED <<buffer, buffsize, logvars, sensorvars>>

\* AnalogSensor(pin, analog_ref, analog_resolution): its body is the statement
\* AnalogSensor(pin, analog_ref, analog_resolution, DEFAULT_OVERSAMPLING); which
\* constructs a temporary object and discards it; the members of this are not
\* written.  `expected` is the temporary.
AnalogSensor3 ==
    /\ ncalls < MaxCalls
    /\ \E pin \in Pins, analog_ref \in AnalogReferences,
          analog_resolution \in AnalogResolutions, this \in UninitializedObjects :
          last' = [op |-> "AnalogSensor", nargs |-> 3,
                   expected |-> AnalogSensorObject(pin, analog_ref, analog_resolution,
                                                   DEFAULT_OVERSAMPLING),
                   object |-> this]
    /\ ncalls' = ncalls + 1
    /\ UNCHANGED <<buffer, buffsize, logvars, sensorvars>>

\* AnalogSensor(pin): its body is the statement
\* AnalogSensor(pin, DEFAULT_ANALOG_REFERENCE, DEFAULT_ANALOG_RESOLUTION); which
\* constructs a temporary object (through the three-argument constructor) and
\* discards it; the members of this are not written.
AnalogSensor1 ==
    /\ ncalls < MaxCalls
    /\ \E pin \in Pins, this \in UninitializedObjects :
          last' = [op |-> "AnalogSensor", nargs |-> 1,
                   expected |-> AnalogSensorObject(pin, DEFAULT_ANALOG_REFERENCE,
                                                   DEFAULT_ANALOG_RESOLUTION,
                                                   DEFAULT_OVERSAMPLING),
                   object |-> this]
    /\ ncalls' = ncalls + 1
    /\ UNCHANGED <<buffer, buffsize, logvars, sensorvars>>

NextSensor ==
    \/ AnalogSensor1
    \/ AnalogSensor3
    \/ AnalogSensor4

SpecSensor == Init /\ [][NextSensor]_vars

Constructed == last.op = "AnalogSensor"

\* C17 (as stated): after AnalogSensor(pin) or AnalogSensor(pin, analog_ref,
\* analog_resolution) the object's pin is the given pin and its other ADC
\* settings are the given arguments or the defaults, as if the four-argument
\* constructor had been called with those values.
C17_ConstructorsDelegate ==
    (Constructed /\ last.nargs \in {1, 3}) => last.object = last.expected

\* What the four-argument constructor does give: the members are its arguments.
C17_FourArgumentsAssign ==
    (Constructed /\ last.nargs = 4) => last.object = last.expected

C17_WitnessFourArguments ==
    /\ Constructed /\ last.nargs = 4
    /\ last.object = AnalogSensorObject(5, "AR_INTERNAL_3_0", 12, 128)

(***************************************************************************)
(* The misuse warning of a single encode call                              *)
(***************************************************************************)

\* C18 (as stated): encoding with valid = FALSE never logs the unsigned-field
\* warning, for signed and unsigned fields alike; the warning is logged only
\* when valid = TRUE and the scaled integer is negative on an unsigned field.
C18_InvalidNeverWarns ==
    Called =>
        /\ ~last.valid => ~last.warned
        /\ last.warned <=>
              (last.valid /\ ~last.schema.is_signed /\ last.data_to_encode < 0)

\* What the call does: the warning is logged exactly when the field is
\* unsigned and the integer packed is negative, and the integer packed for an
\* invalid reading on an unsigned field is 0xFFFFFFFF = -1.
C18_WarnsOnNegativeAccumulator ==
    Called =>
        /\ last.warned <=> (~last.schema.is_signed /\ last.data_to_encode < 0)
        /\ ~last.valid => (last.warned <=> ~last.schema.is_signed)

C18_WitnessInvalidUnsigned ==
    /\ Called /\ ~last.valid
    /\ last.schema = BatterySchema
    /\ last.data_to_encode = -1
    /\ last.warned
    /\ WrittenBytes(2) = <<255, 255>>

(***************************************************************************)
(* The static port table                                                   *)
(***************************************************************************)

\* The registered ports in the order of their definitions.
PortTable ==
    <<PORT1, PORT2, PORT3, PORT4, PORT5, PORT6, PORT7, PORT8, PORT9, PORT10, PORT11,
      PORT50, PORT51, PORT52, PORT53, PORT54, PORT55, PORT56, PORT57, PORT58, PORT59>>

\* The set of the field kinds a schema includes.
IncludedKinds(port) == {kind \in KindSet : Includes(port, kind)}

\* C19: every registered port (PORT1..PORT11, PORT50..PORT59) has a port number
\* unique in the table and different from 0 and 255, includes at least one
\* field, and has a set of inclusion flags different from every other
\* registered port; a schema with no field included comes out of the lookup
\* only for a port number that is not registered.
C19_PortTableWellFormed ==
    /\ \A i \in DOMAIN PortTable :
          /\ PortTable[i].port_number \notin {0, 255}
          /\ IncludedKinds(PortTable[i]) # {}
          /\ \A j \in DOMAIN PortTable :
                 i # j =>
                     /\ PortTable[i].port_number # PortTable[j].port_number
                     /\ IncludedKinds(PortTable[i]) # IncludedKinds(PortTable[j])
    /\ {PortTable[i] : i \in DOMAIN PortTable} = RegisteredPorts
    /\ (GotPort /\ NoFieldIncluded(last.ret)) => last.port_number \notin RegisteredNumbers
    /\ (GotPort /\ last.port_number \in RegisteredNumbers) =>
           /\ last.ret.port_number = last.port_number
           /\ ~NoFieldIncluded(last.ret)

\* The lookup of a registered number gives its port, which includes a field.
C19_Witness ==
    /\ GotPort
    /\ last.port_number = 50
    /\ last.ret = PORT50
    /\ IncludedKinds(last.ret) = {"Location"}

\* The lookup of a number next to a registered one gives the empty schema.
C19_WitnessUnregistered ==
    /\ GotPort
    /\ last.port_number = 49
    /\ NoFieldIncluded(last.ret)

(***************************************************************************)
(* Logging: log, printLog and the BLE callbacks                            *)
(***************************************************************************)

\* log calls explored in one behaviour.
MaxLogCalls == 2

\* BLE callbacks explored in one behaviour.
MaxBleCallbacks == 2

\* The first test of log: the call returns without writing anything.
LogFilteredOut(level, app_level) == (level > app_level) \/ (level = LOG_NONE)

\* The test of printLog: the line goes to the BLE UART as well.
PrintToBleAlways(connected) == TRUE

PrintToBle(connected) == connected

\* The line of the k-th log call.
LogLine(k) == [from |-> "log", id |-> k, level |-> log_calls[k].level]

\* Number of BLE callbacks so far (each writes one line to Serial).
BleCallbacks == Cardinality({i \in DOMAIN serial : serial[i].from # "log"})

InitLogging ==
    /\ buffer = [k \in BufferIndex |-> IF k < Len(HelloBytes) THEN HelloBytes[k + 1] ELSE 0]
    /\ buffsize = Len(HelloBytes)
    /\ ncalls = 0
    /\ last = NoCall
    /\ LoggingInit(LogLevels)
    /\ SensorInit({CurrentSensorMVPerLSB})

\* log(level, format, ...) up to its call of printLog: a filtered-out call
\* returns at once; otherwise the line is formatted and printLog is entered.
LogCall ==
    /\ log_pc = "idle"
    /\ Len(log_calls) < MaxLogCalls
    /\ \E level \in LogLevels :
          /\ log_calls' = Append(log_calls,
                                 [level     |-> level,
                                  passed    |-> ~LogFilteredOut(level, app_log_level),
                                  tested    |-> FALSE,
                                  connected |-> FALSE,
                                  callback  |-> "none"])
          /\ log_pc' = IF LogFilteredOut(level, app_log_level) THEN "idle" ELSE "printLog"
    /\ UNCHANGED <<g_BleUartConnected, serial, ble, last_callback, app_log_level>>
    /\ UNCHANGED <<buffer, buffsize, ncalls, last, sensorvars>>

\* printLog: if (g_BleUartConnected)
PrintLogTest ==
    /\ log_pc = "printLog"
    /\ log_calls' = [log_calls EXCEPT ![Len(log_calls)] =
                        [@ EXCEPT !.tested = TRUE,
                                  !.connected = g_BleUartConnected,
                                  !.callback = last_callback]]
    /\ log_pc' = IF PrintToBle(g_BleUartConnected) THEN "ble_println" ELSE "serial_println"
    /\ UNCHANGED <<g_BleUartConnected, serial, ble, last_callback, app_log_level>>
    /\ UNCHANGED <<buffer, buffsize, ncalls, last, sensorvars>>

\* printLog: g_BleUart.println(log);
PrintLogBle ==
    /\ log_pc = "ble_println"
    /\ ble' = Append(ble, LogLine(Len(log_calls)))
    /\ log_pc' = "serial_println"
    /\ UNCHANGED <<g_BleUartConnected, serial, log_calls, last_callback, app_log_level>>
    /\ UNCHANGED <<buffer, buffsize, ncalls, last, sensorvars>>

\* printLog: Serial.println(log); and the return of printLog and of log.
PrintLogSerial ==
    /\ log_pc = "serial_println"
    /\ serial' = Append(serial, LogLine(Len(log_calls)))
    /\ log_pc' = "idle"
    /\ UNCHANGED <<g_BleUartConnected, ble, log_calls, last_callback, app_log_level>>
    /\ UNCHANGED <<buffer, buffsize, ncalls, last, sensorvars>>

\* ble_connect_callback: the flag is set, "BLE client connected" goes to Serial.
BleConnectCallback ==
    /\ BleCallbacks < MaxBleCallbacks
    /\ g_BleUartConnected' = TRUE
    /\ serial' = Append(serial, [from |-> "ble_connect_callback"])
    /\ last_callback' = "connect"
    /\ UNCHANGED <<ble, log_pc, log_calls, app_log_level>>
    /\ UNCHANGED <<buffer, buffsize, ncalls, last, sensorvars>>

\* ble_disconnect_callback: the flag is cleared, "BLE client disconnected" goes
\* to Serial.
BleDisconnectCallback ==
    /\ BleCallbacks < MaxBleCallbacks
    /\ g_BleUartConnected' = FALSE
    /\ serial' = Append(serial, [from |-> "ble_disconnect_callback"])
    /\ last_callback' = "disconnect"
    /\ UNCHANGED <<ble, log_pc, log_calls, app_log_level>>
    /\ UNCHANGED <<buffer, buffsize, ncalls, last, sensorvars>>

NextLogging ==
    \/ LogCall
    \/ PrintLogTest
    \/ PrintLogBle
    \/ PrintLogSerial
    \/ BleConnectCallback
    \/ BleDisconnectCallback

SpecLogging == InitLogging /\ [][NextLogging]_vars

\* How often the line of the k-th log call is in an output.
TimesWritten(out, k) ==
    Cardinality({i \in DOMAIN out : out[i].from = "log" /\ out[i].id = k})

\* The k-th log call has returned.
LogReturned(k) == k < Len(log_calls) \/ log_pc = "idle"

\* C20: for any interleaving of log calls with the BLE connect and disconnect
\* callbacks: the connected flag is true exactly when the most recent BLE
\* callback was a connect (false initially and after every disconnect); a log
\* call passes the filter exactly when level <= APP_LOG_LEVEL and level is not
\* NONE; a call that passed has, on return, written its line once to Serial,
\* and once to the BLE UART exactly when the flag was set at the moment
\* printLog tested it, i.e. the most recent callback then was a connect; a
\* filtered-out call writes nothing.
C20_LogOutputs ==
    /\ g_BleUartConnected <=> (last_callback = "connect")
    /\ \A k \in DOMAIN log_calls :
          LET c == log_calls[k]
          IN  /\ c.passed <=> (c.level <= app_log_level /\ c.level # LOG_NONE)
              /\ ~c.passed => (TimesWritten(serial, k) = 0 /\ TimesWritten(ble, k) = 0)
              /\ c.tested => (c.connected <=> (c.callback = "connect"))
              /\ (c.passed /\ LogReturned(k)) =>
                     /\ c.tested
                     /\ TimesWritten(serial, k) = 1
                     /\ TimesWritten(ble, k) = (IF c.connected THEN 1 ELSE 0)

\* A line logged before any client connected (Serial only) and one logged
\* after a connect (BLE UART and Serial).
C20_Witness ==
    /\ log_pc = "idle"
    /\ Len(log_calls) = 2
    /\ log_calls[1].passed /\ ~log_calls[1].connected
    /\ log_calls[2].passed /\ log_calls[2].connected
    /\ last_callback = "connect"
    /\ TimesWritten(ble, 1) = 0 /\ TimesWritten(serial, 1) = 1
    /\ TimesWritten(ble, 2) = 1 /\ TimesWritten(serial, 2) = 1

\* A filtered-out call while a client is connected: nothing is written.
C20_WitnessFiltered ==
    /\ g_BleUartConnected
    /\ Len(log_calls) = 1
    /\ log_calls[1].level = LOG_DEBUG
    /\ app_log_level = LOG_INFO
    /\ ~log_calls[1].passed
    /\ ble = <<>>
    /\ Len(serial) = 1

(***************************************************************************)
(* BatteryLevel::mvToSoC (AnalogSensor.cpp): the state of charge of a      *)
(* lithium cell from its voltage, by a lookup table and linear             *)
(* interpolation, in binary32 arithmetic.                                  *)
(***************************************************************************)

\* Sign of a float value: -1, 0 or 1.
FloatSign(f) == IF f.m = 0 THEN 0 ELSE IF f.neg THEN -1 ELSE 1

\* Comparison of the magnitudes of two non-zero floats: -1, 0 or 1.
FloatMagCmp(a, b) ==
    LET ta == BitLen(a.m) + a.e
        tb == BitLen(b.m) + b.e
    IN  IF ta < tb THEN -1
        ELSE IF ta > tb THEN 1
        ELSE LET E == IF a.e < b.e THEN a.e ELSE b.e
                 A == a.m * (2 ^ (a.e - E))
                 B == b.m * (2 ^ (b.e - E))
             IN  IF A < B THEN -1 ELSE IF A > B THEN 1 ELSE 0

\* Comparison of two floats by value: -1, 0 or 1.
FloatCmp(a, b) ==
    IF FloatSign(a) # FloatSign(b)
    THEN (IF FloatSign(a) < FloatSign(b) THEN -1 ELSE 1)
    ELSE IF FloatSign(a) = 0 THEN 0
    ELSE FloatSign(a) * FloatMagCmp(a, b)

FloatLe(a, b) == FloatCmp(a, b) <= 0
FloatLt(a, b) == FloatCmp(a, b) < 0
FloatEq(a, b) == FloatCmp(a, b) = 0

FloatNeg(a) == Float(~a.neg, a.m, a.e)

\* The significand of a non-zero float widened by three guard bits.
FloatWiden(f) ==
    LET shift == FloatMantBits + 3 - BitLen(f.m)
    IN  [m |-> f.m * (2 ^ shift), e |-> f.e - shift]

\* x + y for non-zero floats with |x| >= |y|: y is aligned to x, the bits
\* shifted out are kept as a sticky bit, and the sum is rounded once.
FloatAddOrdered(x, y) ==
    LET X      == FloatWiden(x)
        Y      == FloatWiden(y)
        gap    == X.e - Y.e
        width  == FloatMantBits + 3
        Yq     == IF gap > width THEN 0 ELSE Y.m \div (2 ^ gap)
        sticky == IF gap > width THEN TRUE ELSE Y.m % (2 ^ gap) # 0
        Ys     == IF sticky /\ Yq % 2 = 0 THEN Yq + 1 ELSE Yq
        S      == IF x.neg = y.neg THEN X.m + Ys ELSE X.m - Ys
    IN  IF S = 0 THEN Float(FALSE, 0, 0) ELSE RoundToFloat(x.neg, S, X.e)

\* a + b in binary32.
FloatAdd(a, b) ==
    IF a.m = 0 THEN b
    ELSE IF b.m = 0 THEN a
    ELSE IF FloatMagCmp(a, b) >= 0 THEN FloatAddOrdered(a, b)
    ELSE FloatAddOrdered(b, a)

\* a - b in binary32.
FloatSub(a, b) == FloatAdd(a, FloatNeg(b))

\* Long division: st = [q, rem, s] holds the quotient so far, the remainder
\* and the number of fraction bits produced; it stops at a 27-bit quotient.
RECURSIVE DivLoop(_, _)
DivLoop(st, d) ==
    IF st.q >= 2 ^ (FloatMantBits + 2)
    THEN st
    ELSE LET r2  == 2 * st.rem
             bit == IF r2 >= d THEN 1 ELSE 0
             nxt == [q |-> 2 * st.q + bit, rem |-> r2 - bit * d, s |-> st.s + 1]
         IN  DivLoop(nxt, d)

\* a / b in binary32 (b is not zero): the quotient to 27 bits and a sticky
\* bit for the remainder, rounded once.
FloatDiv(a, b) ==
    IF a.m = 0
    THEN Float(FALSE, 0, 0)
    ELSE LET st == DivLoop([q |-> a.m \div b.m, rem |-> a.m % b.m, s |-> 0], b.m)
             P  == 2 * st.q + (IF st.rem # 0 THEN 1 ELSE 0)
         IN  RoundToFloat((a.neg /\ ~b.neg) \/ (~a.neg /\ b.neg),
                          P, a.e - b.e - st.s - 1)
\* #define SOC_MV_LOOKUP_SIZE 11
SOC_MV_LOOKUP_SIZE == 11

\* The table in millivolts, entry i for a state of charge of 10 * i percent.
SocMvTable == <<3300, 3584, 3678, 3725, 3748, 3775, 3815, 3873, 3951, 4036, 4200>>

\* const float soc_mv_lookup[SOC_MV_LOOKUP_SIZE], indexed from 0.
soc_mv_lookup == [i \in 0..(SOC_MV_LOOKUP_SIZE - 1) |-> IntToFloat(SocMvTable[i + 1])]

F_Ten     == Float(FALSE, 10, 0)             \* 10.0F
F_Hundred == Float(FALSE, 100, 0)            \* 100.0

\* The for loop: the first i in 1..10 with mvolts <= soc_mv_lookup[i], at
\* which the loop breaks, or SOC_MV_LOOKUP_SIZE when it runs to its end.
SocLoopIndex(mvolts) ==
    LET hits == {i \in 1..(SOC_MV_LOOKUP_SIZE - 1) : FloatLe(mvolts, soc_mv_lookup[i])}
    IN  IF hits = {} THEN SOC_MV_LOOKUP_SIZE
        ELSE CHOOSE i \in hits : \A j \in hits : i <= j

\* The locals after the loop: the values set at the break, or the initial
\* ones (the last segment, 100 percent) when no entry was reached.
SocSegment(mvolts) ==
    LET i == SocLoopIndex(mvolts)
    IN  IF i < SOC_MV_LOOKUP_SIZE
        THEN [high_mv  |-> soc_mv_lookup[i],
              low_mv   |-> soc_mv_lookup[i - 1],
              vbat_soc |-> FloatMul(IntToFloat(i - 1), F_Ten)]
        ELSE [high_mv  |-> soc_mv_lookup[SOC_MV_LOOKUP_SIZE - 1],
              low_mv   |-> soc_mv_lookup[SOC_MV_LOOKUP_SIZE - 2],
              vbat_soc |-> F_Hundred]

\* vbat_soc += (mvolts - low_mv) * 10.0F / (high_mv - low_mv);
SocInterpolated(mvolts) ==
    LET seg == SocSegment(mvolts)
    IN  FloatAdd(seg.vbat_soc,
                 FloatDiv(FloatMul(FloatSub(mvolts, seg.low_mv), F_Ten),
                          FloatSub(seg.high_mv, seg.low_mv)))

\* The clamp without its upper branch.
SocClampLowOnly(vbat_soc) ==
    IF FloatLt(vbat_soc, F_Zero) THEN F_Zero ELSE vbat_soc

\* if (vbat_soc < 0) vbat_soc = 0.0; else if (vbat_soc > 100.0) vbat_soc = 100.0;
SocClamp(vbat_soc) ==
    IF FloatLt(vbat_soc, F_Zero) THEN F_Zero
    ELSE IF FloatLt(F_Hundred, vbat_soc) THEN F_Hundred
    ELSE vbat_soc

\* float BatteryLevel::mvToSoC(float mvolts)
mvToSoC(mvolts) == SocClamp(SocInterpolated(mvolts))
\* Input voltages: every eighth millivolt from 3276 to 4220 mV.
MvSweep == {IntToFloat(3276 + 8 * k) : k \in 0..118}

\* The two floats next to each table voltage (one unit in the last place:
\* 2^-12 below 4096 mV, 2^-11 from 4096 mV on).
MvNeighbours ==
    {Float(FALSE, SocMvTable[i] * 4096 + d, -12) : i \in 1..10, d \in {-1, 1}}
        \cup {Float(FALSE, 4200 * 2048 + d, -11) : d \in {-1, 1}}

\* The table voltages and the middle of each segment.
MvTableAndMiddles ==
    {soc_mv_lookup[i] : i \in 0..(SOC_MV_LOOKUP_SIZE - 1)}
        \cup {Float(FALSE, SocMvTable[i] + SocMvTable[i + 1], -1) : i \in 1..10}

\* Voltages far outside the table: zero, negative, tiny and large readings.
MvExtremes ==
    {F_Zero, Float(TRUE, 3300, 0), Float(TRUE, 1, -20), Float(FALSE, 1, -20),
     Float(FALSE, 1, 0), Float(FALSE, 5000, 0), Float(FALSE, 1, 20),
     Float(TRUE, 1, 20), Float(FALSE, 16777215, -2), Float(FALSE, 13421773, -27)}

MvInputs == MvSweep \cup MvNeighbours \cup MvTableAndMiddles \cup MvExtremes

\* log(LOG_LEVEL::DEBUG, ...) run to its end with no BLE callback in between:
\* the line goes to the BLE UART when connected, and to Serial.
LogDone(line) ==
    /\ ble' = IF ~LogFilteredOut(line.level, app_log_level) /\ PrintToBle(g_BleUartConnected)
              THEN Append(ble, line) ELSE ble
    /\ serial' = IF ~LogFilteredOut(line.level, app_log_level)
                 THEN Append(serial, line) ELSE serial
    /\ UNCHANGED <<g_BleUartConnected, log_pc, log_calls, last_callback, app_log_level>>

\* One call of mvToSoC: the result and the line it logs.
mvToSoCCall ==
    /\ ncalls < MaxCalls
    /\ \E mvolts \in MvInputs :
          last' = [op |-> "mvToSoC", mvolts |-> mvolts, ret |-> mvToSoC(mvolts)]
    /\ LogDone([from |-> "mvToSoC", id |-> ncalls + 1, level |-> LOG_DEBUG])
    /\ ncalls' = ncalls + 1
    /\ UNCHANGED <<buffer, buffsize, sensorvars>>

NextBattery == mvToSoCCall

SpecBattery == Init /\ [][NextBattery]_vars

\* floor(f * 2^k) of a float f >= 0.
FloorScaled(f, k) ==
    IF f.e + k >= 0 THEN f.m * (2 ^ (f.e + k))
    ELSE IF -(f.e + k) > 30 THEN 0
    ELSE f.m \div (2 ^ (-(f.e + k)))

\* The exact interpolation on segment i at mvolts (a multiple of 2^-12 mV),
\* in units of 2^-10 percent, rounded down:
\* 10 * (i - 1) + 10 * (mvolts - low) / (high - low).
ExactSoC1024(mvolts, i) ==
    LET low  == SocMvTable[i]
        high == SocMvTable[i + 1]
        N    == (FloorScaled(mvolts, 12) - 4096 * low) * 10
    IN  10240 * (i - 1) + N \div (4 * (high - low))

SoCCalled == last.op = "mvToSoC"

\* C21: mvToSoC returns a state of charge within 0..100 for every input
\* voltage: 0 at or below 3300 mV, 100 at or above 4200 mV, exactly 10 * i at
\* the i-th table voltage (i = 0..10), and between two adjacent table
\* voltages the linear interpolation of their states of charge (to within
\* 2^-10 percent, and never outside the two).
C21_StateOfCharge ==
    SoCCalled =>
        LET mvolts == last.mvolts
            soc    == last.ret
        IN  /\ FloatLe(F_Zero, soc) /\ FloatLe(soc, F_Hundred)
            /\ FloatLe(mvolts, IntToFloat(3300)) => FloatEq(soc, F_Zero)
            /\ FloatLe(IntToFloat(4200), mvolts) => FloatEq(soc, F_Hundred)
            /\ \A i \in 0..10 :
                  FloatEq(mvolts, IntToFloat(SocMvTable[i + 1]))
                      => FloatEq(soc, IntToFloat(10 * i))
            /\ \A i \in 1..10 :
                  (/\ FloatLe(IntToFloat(SocMvTable[i]), mvolts)
                   /\ FloatLe(mvolts, IntToFloat(SocMvTable[i + 1])))
                      => /\ FloatLe(IntToFloat(10 * (i - 1)), soc)
                         /\ FloatLe(soc, IntToFloat(10 * i))
                         /\ Abs(FloorScaled(soc, 10) - ExactSoC1024(mvolts, i)) <= 1

\* A call at 3700 mV, inside the segment 3678..3725 mV: the result is
\* 20 + 220 / 47, between 24 and 25 percent.
C21_Witness ==
    /\ SoCCalled
    /\ FloatEq(last.mvolts, IntToFloat(3700))
    /\ FloatLt(IntToFloat(24), last.ret)
    /\ FloatLt(last.ret, IntToFloat(25))

\* A call above the table (5000 mV) returns 100.
C21_WitnessAbove ==
    /\ SoCCalled
    /\ FloatEq(last.mvolts, IntToFloat(5000))
    /\ FloatEq(last.ret, F_Hundred)

\* A call just below the first table voltage returns 0.
C21_WitnessBelow ==
    /\ SoCCalled
    /\ last.mvolts = Float(FALSE, 3300 * 4096 - 1, -12)
    /\ FloatEq(last.ret, F_Zero)

(***************************************************************************)
(* CurrentSensor::zeroCurrentOffsetCalibration and readCurrentAmp          *)
(* (AnalogSensor.cpp): averages of numberOfSamples ADC readings, summed in *)
(* float members of the object.                                            *)
(***************************************************************************)

\* A natural number of up to 84 bits as seven digits of 12 bits, the least
\* significant first: the product of a float significand and a double one.
BigDigits == 1..7

\* Carry propagation over column sums.
RECURSIVE BigCarry(_, _, _, _)
BigCarry(cols, j, carry, acc) ==
    IF j > 7
    THEN acc
    ELSE LET t == cols[j] + carry
         IN  BigCarry(cols, j + 1, t \div 4096, Append(acc, t % 4096))

\* The significand of the double constant 0.032 (0.032 = it * 2^-57).
Double0032Digits == <<2556, 3866, 3538, 1572, 16>>

\* m * d for a significand m below 2^24 and a five-digit d.
BigProduct(m, d) ==
    LET a    == <<m % 4096, m \div 4096>>
        cols == [j \in BigDigits |->
                    (IF j <= 5 THEN a[1] * d[j] ELSE 0)
                        + (IF j >= 2 /\ j <= 6 THEN a[2] * d[j - 1] ELSE 0)]
    IN  BigCarry(cols, 1, 0, <<>>)

\* Bit k (from 0) of a big number.
BigBit(d, k) == (d[(k \div 12) + 1] \div (2 ^ (k % 12))) % 2

\* Number of significant bits of a big number.
BigLen(d) ==
    LET top == {j \in BigDigits : d[j] # 0}
    IN  IF top = {} THEN 0
        ELSE LET j == CHOOSE x \in top : \A y \in top : y <= x
             IN  12 * (j - 1) + BitLen(d[j])

\* The big number with its bits below k cleared.
BigClearBelow(d, k) ==
    [j \in BigDigits |->
        IF 12 * j <= k THEN 0
        ELSE IF 12 * (j - 1) >= k THEN d[j]
        ELSE d[j] - (d[j] % (2 ^ (k - 12 * (j - 1))))]

\* d + 2^k.
BigAddPow2(d, k) ==
    BigCarry([j \in BigDigits |-> d[j] + (IF j = (k \div 12) + 1 THEN 2 ^ (k % 12) ELSE 0)],
             1, 0, <<>>)

\* d rounded to p significant bits, ties to even.
BigRoundTo(d, p) ==
    LET k == BigLen(d) - p
    IN  IF k <= 0
        THEN d
        ELSE LET guard  == BigBit(d, k - 1) = 1
                 sticky == \E j \in 0..(k - 2) : BigBit(d, j) = 1
                 odd    == BigBit(d, k) = 1
                 trunc  == BigClearBelow(d, k)
             IN  IF guard /\ (sticky \/ odd) THEN BigAddPow2(trunc, k) ELSE trunc

\* The value of the w bits of d from bit lo on (w <= 24).
BigField(d, lo, w) ==
    LET j0  == lo \div 12
        sh  == lo % 12
        dig(j) == IF j + 1 \in BigDigits THEN d[j + 1] ELSE 0
    IN  ((dig(j0) \div (2 ^ sh))
            + dig(j0 + 1) * (2 ^ (12 - sh))
            + (dig(j0 + 2) % (2 ^ sh)) * (2 ^ (24 - sh))) % (2 ^ w)

\* Significand width of a double (DBL_MANT_DIG).
DoubleMantBits == 53

\* (float)((double)x * 0.032): the product is rounded to a double, and the
\* double to a float on assignment.
TimesDouble0032(x) ==
    IF x.m = 0
    THEN Float(x.neg, 0, 0)
    ELSE LET P == BigProduct(x.m, Double0032Digits)
             V == BigRoundTo(BigRoundTo(P, DoubleMantBits), FloatMantBits)
             n == BigLen(V)
         IN  IF n <= FloatMantBits
             THEN Float(x.neg, BigField(V, 0, FloatMantBits), x.e - 57)
             ELSE Float(x.neg, BigField(V, n - FloatMantBits, FloatMantBits),
                        x.e - 57 + n - FloatMantBits)
\* int numberOfSamples = 2000 in the class; the loops are explored with this
\* many samples per call.
numberOfSamples == 2

\* Calls of the two routines explored in one behaviour.
MaxSensorCalls == 3

\* analogRead(pin): the raw readings of the 12-bit ADC that are explored.
ADCReadings == {2048, 2300}

\* real_MV_per_LSB as ADCInit leaves it (compensation factor 1/0.6): 3000 mV
\* over 12 bits for CurrentSensor(void), 3600 mV over 10 bits for
\* CurrentSensor(AR_DEFAULT, 10).
RealMVPerLSBs == {CurrentSensorMVPerLSB, Float(FALSE, 375, -6)}

F_2500 == Float(FALSE, 2500, 0)              \* 2500

\* The value an accumulator is left with at the end of a call, had the
\* assignment of 0 been left out.
SumKept(sum) == sum

\* current_sensor_mV_sum = 0; currentSampleSum = 0; currentSensorADCvalSum = 0;
SumReset(sum) == F_Zero

\* A call of `routine` is entered: i = 0.
EnterRoutine(routine) ==
    /\ sensor_call.pc = "idle"
    /\ sensor_call.calls < MaxSensorCalls
    /\ sensor_call' = [sensor_call EXCEPT !.pc = routine, !.i = 0, !.routine = routine,
                                          !.samples = <<>>,
                                          !.offset = current_sensor.zeroCurrentOffset]
    /\ UNCHANGED current_sensor
    /\ UNCHANGED <<buffer, buffsize, ncalls, last, logvars>>

\* Two lines logged in a row (no BLE callback in between).
LogDoneTwice(first, second) ==
    /\ ble' = IF ~LogFilteredOut(first.level, app_log_level) /\ PrintToBle(g_BleUartConnected)
              THEN ble \o <<first, second>> ELSE ble
    /\ serial' = IF ~LogFilteredOut(first.level, app_log_level)
                 THEN serial \o <<first, second>> ELSE serial
    /\ UNCHANGED <<g_BleUartConnected, log_pc, log_calls, last_callback, app_log_level>>

ZeroCalibrationEnter == EnterRoutine("zeroCurrentOffsetCalibration")

\* One pass of the loop of zeroCurrentOffsetCalibration:
\* current_sensor_mV = readMV(); current_sensor_mV_sum += current_sensor_mV;
ZeroCalibrationSample ==
    /\ sensor_call.pc = "zeroCurrentOffsetCalibration"
    /\ sensor_call.i < numberOfSamples
    /\ \E adc \in ADCReadings :
          LET rawADC == IntToFloat(adc)
              mV     == FloatMul(rawADC, current_sensor.real_MV_per_LSB)
          IN  /\ current_sensor' =
                     [current_sensor EXCEPT
                         !.rawADC = rawADC,
                         !.current_sensor_mV = mV,
                         !.current_sensor_mV_sum = FloatAdd(@, mV)]
              /\ sensor_call' = [sensor_call EXCEPT !.i = @ + 1,
                                                    !.samples = Append(@, adc)]
    /\ UNCHANGED <<buffer, buffsize, ncalls, last, logvars>>

\* The loop is left: the average, the offset, the reset of the sum, and the
\* two lines logged.
ZeroCalibrationReturn ==
    /\ sensor_call.pc = "zeroCurrentOffsetCalibration"
    /\ sensor_call.i >= numberOfSamples
    /\ LET current_sample_mv == FloatDiv(current_sensor.current_sensor_mV_sum,
                                         IntToFloat(numberOfSamples))
       IN  current_sensor' =
               [current_sensor EXCEPT
                   !.current_sample_mv = current_sample_mv,
                   !.zeroCurrentOffset = FloatSub(F_2500, current_sample_mv),
                   !.current_sensor_mV_sum = SumReset(@)]
    /\ sensor_call' = [sensor_call EXCEPT !.pc = "idle", !.calls = @ + 1]
    /\ LogDoneTwice([from |-> "zeroCurrentOffsetCalibration", id |-> 1, level |-> LOG_DEBUG],
                    [from |-> "zeroCurrentOffsetCalibration", id |-> 2, level |-> LOG_DEBUG])
    /\ UNCHANGED <<buffer, buffsize, ncalls, last>>

ReadCurrentAmpEnter == EnterRoutine("readCurrentAmp")

\* One pass of the loop of readCurrentAmp.
ReadCurrentAmpSample ==
    /\ sensor_call.pc = "readCurrentAmp"
    /\ sensor_call.i < numberOfSamples
    /\ \E adc \in ADCReadings :
          LET rawADC            == IntToFloat(adc)
              mV                == FloatMul(rawADC, current_sensor.real_MV_per_LSB)
              current_sensor_mV == FloatAdd(mV, current_sensor.zeroCurrentOffset)
              currentSampleRead == TimesDouble0032(FloatSub(current_sensor_mV, F_2500))
          IN  /\ current_sensor' =
                     [current_sensor EXCEPT
                         !.rawADC = rawADC,
                         !.current_sensor_mV = current_sensor_mV,
                         !.currentSensorADCvalSum = FloatAdd(rawADC, @),
                         !.currentSampleRead = currentSampleRead,
                         !.currentSampleSum = FloatAdd(@, currentSampleRead)]
              /\ sensor_call' = [sensor_call EXCEPT !.i = @ + 1,
                                                    !.samples = Append(@, adc)]
    /\ UNCHANGED <<buffer, buffsize, ncalls, last, logvars>>

\* The loop is left: the two averages, the reset of the two sums, the two
\* lines logged, and the value returned.
ReadCurrentAmpReturn ==
    /\ sensor_call.pc = "readCurrentAmp"
    /\ sensor_call.i >= numberOfSamples
    /\ LET currentSample == FloatDiv(current_sensor.currentSampleSum,
                                     IntToFloat(numberOfSamples))
       IN  /\ current_sensor' =
                  [current_sensor EXCEPT
                      !.ADCaverage = FloatDiv(current_sensor.currentSensorADCvalSum,
                                              IntToFloat(numberOfSamples)),
                      !.currentSample = currentSample,
                      !.currentSampleSum = SumReset(@),
                      !.currentSensorADCvalSum = SumReset(@)]
           /\ sensor_call' = [sensor_call EXCEPT !.pc = "idle", !.calls = @ + 1,
                                                 !.ret = currentSample]
    /\ LogDoneTwice([from |-> "readCurrentAmp", id |-> 1, level |-> LOG_DEBUG],
                    [from |-> "readCurrentAmp", id |-> 2, level |-> LOG_DEBUG])
    /\ UNCHANGED <<buffer, buffsize, ncalls, last>>

NextCurrent ==
    \/ ZeroCalibrationEnter
    \/ ZeroCalibrationSample
    \/ ZeroCalibrationReturn
    \/ ReadCurrentAmpEnter
    \/ ReadCurrentAmpSample
    \/ ReadCurrentAmpReturn

\* A CurrentSensor after its construction and ADCInit(), no call made yet.
InitCurrent ==
    /\ buffer = [k \in BufferIndex |-> IF k < Len(HelloBytes) THEN HelloBytes[k + 1] ELSE 0]
    /\ buffsize = Len(HelloBytes)
    /\ ncalls = 0
    /\ last = NoCall
    /\ LoggingInit({LOG_DEBUG})
    /\ SensorInit(RealMVPerLSBs)

SpecCurrent == InitCurrent /\ [][NextCurrent]_vars

\* The sums a call builds from zero over the readings samples[1..k], each
\* computed from those readings alone.
RECURSIVE OwnMVSum(_, _, _)
OwnMVSum(samples, k, real_MV_per_LSB) ==
    IF k = 0
    THEN F_Zero
    ELSE FloatAdd(OwnMVSum(samples, k - 1, real_MV_per_LSB),
                  FloatMul(IntToFloat(samples[k]), real_MV_per_LSB))

RECURSIVE OwnADCSum(_, _)
OwnADCSum(samples, k) ==
    IF k = 0
    THEN F_Zero
    ELSE FloatAdd(IntToFloat(samples[k]), OwnADCSum(samples, k - 1))

RECURSIVE OwnCurrentSum(_, _, _, _)
OwnCurrentSum(samples, k, real_MV_per_LSB, offset) ==
    IF k = 0
    THEN F_Zero
    ELSE FloatAdd(OwnCurrentSum(samples, k - 1, real_MV_per_LSB, offset),
                  TimesDouble0032(
                      FloatSub(FloatAdd(FloatMul(IntToFloat(samples[k]), real_MV_per_LSB),
                                        offset),
                               F_2500)))

\* The sum of the raw readings, as an integer.
RECURSIVE RawSum(_, _)
RawSum(samples, k) == IF k = 0 THEN 0 ELSE samples[k] + RawSum(samples, k - 1)

SensorIdle == sensor_call.pc = "idle"

\* C22: whenever no call of zeroCurrentOffsetCalibration or readCurrentAmp is
\* in progress the three accumulators are 0; the result of every call is the
\* average over the numberOfSamples readings of that call alone (the offset
\* from the readings of the calibration, the current from the readings and
\* the offset readCurrentAmp was entered with, the ADC average from the raw
\* readings), whatever calls preceded it; and readCurrentAmp leaves
\* zeroCurrentOffset as it found it.
C22_AccumulatorsReset ==
    LET samples == sensor_call.samples
        real    == current_sensor.real_MV_per_LSB
        n       == IntToFloat(numberOfSamples)
    IN  /\ SensorIdle =>
              /\ current_sensor.current_sensor_mV_sum.m = 0
              /\ current_sensor.currentSampleSum.m = 0
              /\ current_sensor.currentSensorADCvalSum.m = 0
        /\ (SensorIdle /\ sensor_call.routine = "zeroCurrentOffsetCalibration") =>
              /\ Len(samples) = numberOfSamples
              /\ FloatEq(current_sensor.zeroCurrentOffset,
                         FloatSub(F_2500,
                                  FloatDiv(OwnMVSum(samples, numberOfSamples, real), n)))
        /\ (SensorIdle /\ sensor_call.routine = "readCurrentAmp") =>
              /\ Len(samples) = numberOfSamples
              /\ FloatEq(sensor_call.ret,
                         FloatDiv(OwnCurrentSum(samples, numberOfSamples, real,
                                                sensor_call.offset), n))
              /\ FloatEq(current_sensor.ADCaverage,
                         FloatDiv(OwnADCSum(samples, numberOfSamples), n))
              /\ FloorScaled(current_sensor.ADCaverage, 0)
                     = RawSum(samples, numberOfSamples) \div numberOfSamples
        /\ sensor_call.routine = "readCurrentAmp" =>
              current_sensor.zeroCurrentOffset = sensor_call.offset

\* readCurrentAmp has returned a current other than 0 after a calibration
\* that found an offset other than 0, as the third call or later.
C22_Witness ==
    /\ SensorIdle
    /\ sensor_call.routine = "readCurrentAmp"
    /\ sensor_call.calls >= 3
    /\ current_sensor.zeroCurrentOffset.m # 0
    /\ sensor_call.ret.m # 0

\* In the loop of a later call of readCurrentAmp the two sums are not 0.
C22_WitnessInProgress ==
    /\ sensor_call.pc = "readCurrentAmp"
    /\ sensor_call.calls >= 1
    /\ sensor_call.i >= 1
    /\ current_sensor.currentSampleSum.m # 0
    /\ current_sensor.currentSensorADCvalSum.m # 0

\* A calibration has returned after an earlier call, with an offset other
\* than 0.
C22_WitnessCalibration ==
    /\ SensorIdle
    /\ sensor_call.routine = "zeroCurrentOffsetCalibration"
    /\ sensor_call.calls >= 2
    /\ current_sensor.zeroCurrentOffset.m # 0

=============================================================================
